---- MODULE Spec2Model ----
(***************************************************************************)
(* Context construction and prioritisation engine of x-outpost.            *)
(*                                                                         *)
(* SpecWalk    : TweetService._getConversationContext and                  *)
(*               _trimConversation over stored reply graphs                *)
(*               (src/unnamed/part_002).                                   *)
(* Spec        : the cron-driven job of src/unnamed/part_002 ("v2") and    *)
(*               the scraper's upsert of fetched posts, against one store. *)
(* FairSpec    : Spec under its scheduler.                                 *)
(* SpecOverlap : the interval-driven job of src/llm_response_context.mjs   *)
(*               ("v1"), two of its runs overlapping, and the scraper.     *)
(* SpecPipeline: the three context builders, the response generator       *)
(*               (src/generate_responses.mjs) and the publisher            *)
(*               (src/xresponder.mjs) on one store.                        *)
(* SpecPublish : the v1 job, the generator, the publisher under either    *)
(*               reply policy, and the dashboard's delete of a draft       *)
(*               (src/unnamed/part_000).                                   *)
(* FairGen     : the v1 job, the v2 job and the generator under their      *)
(*               schedulers.                                               *)
(* SpecDigest  : the v1 job, the v2 job and the generator, failures        *)
(*               included.                                                 *)
(* SpecLegacyWalk : the walk of getTweetResponseContext                    *)
(*               (src/llm_response_context.mjs) over stored reply graphs.  *)
(* SpecLimiter : AdaptiveRateLimiter under the fetch cycles that share it  *)
(*               (src/unnamed/part_009).                                   *)
(***************************************************************************)
EXTENDS FiniteSets, Integers, Sequences, TLC

(***************************************************************************)
(* Bounds of the model.                                                    *)
(***************************************************************************)
NumWalkIds == 3
MaxChain == 12
MaxKept == 6
\* posts of the stores TweetService is run on
NumRankPosts == 2
\* urls of one call of _processImagesWithConcurrency, and the largest
\* configured concurrency limit (a larger one never holds a task back)
MaxUrls == 2
\* replies to one post the publisher is followed through
MaxPublished == 2
\* maxRequests of the limiter the fetch cycles share, and the time the clock
\* is followed to
MaxRequests == 2
MaxNow == 4

(***************************************************************************)
(* Program constants.                                                      *)
(***************************************************************************)
\* the "+ 10" buffer of the walk's length cap
TrimBuffer == 10
\* MAX_RETRY_DELAY = 60000 ms, in intervals of one token of xCacheAPI
\* (15 * 60 * 1000 / 180 = 5000 ms)
MaxRetryDelay == 12
\* IMAGE_PROCESSING_CONCURRENCY || '5'
DefaultImageConcurrency == 5

NoId == 0
NoDoc == [type |-> "none"]

Min(a, b) == IF a < b THEN a ELSE b
Max(a, b) == IF a > b THEN a ELSE b

VARIABLES
    tweetsCollection,       \* db.collection('tweets'): id -> document or NoDoc
    conversationMaxTweets,  \* config.limits.conversationMaxTweets
    startId,                \* argument tweetId of _getConversationContext
    currentTweetId,         \* local currentTweetId
    tweets,                 \* local tweets (accumulator)
    visited,                \* local visited
    lookups,                \* number of findOne calls made by the walk
    walkThrew,              \* a findOne of the walk rejected
    wpc,                    \* position of the walk: "idle", "loop", "done"
    conversation,           \* value returned by _getConversationContext
    responsesCollection,    \* db.collection('responses'), in insertion order
    responsesUnique,        \* the unique index on responses.tweet_id exists
    imageVisions,           \* db.collection('image_visions'): url -> entry or NoDesc
    isProcessing,           \* the module-level lock of the v2 job
    run,                    \* per job: position and locals of its current run
    selected,               \* value returned by getPrioritizedTweets
    lastOp,                 \* the operation of TweetService or AuthorService that ran last
    tweetFetch,             \* config.limits.tweetFetch
    imageConcurrency,       \* config.limits.imageConcurrency
    mediaUrls,              \* argument urls of _processImagesWithConcurrency
    tasks,                  \* per url of the call: position and locals of its task
    descriptions,           \* value returned by _processImagesWithConcurrency
    apiCalls,               \* url -> describeImage calls made by the current call
    clock,                  \* what new Date() returns
    calls,                  \* the call of _processImagesWithConcurrency that returned
                            \* last: its urls and the describeImage calls it made
    authorsCollection,      \* db.collection('authors') as find() returns it
    alwaysReplyToUsernames, \* config.alwaysReplyToUsernames
    frequentAuthorIds,      \* distinct author_id of the recent responses
    classification,         \* value returned by the classification of authors
    prioritizedAuthors,     \* value returned by prioritizeAuthors
    legacyTweet,            \* llm_response_context.mjs:552-671: the post its main found no record of
    prompts,                \* generate_responses.mjs: the prompts its main has yet to answer
    unposted,               \* xresponder.mjs: the responses its call has yet to handle
    following,              \* xresponder.mjs: id of the documents of db.collection('following')
    REPLY_TO_UNFOLLOWED,    \* xresponder.mjs: process.env.REPLY_TO_UNFOLLOWED === 'true'
    published,              \* per tweet_id, the number of replies postX has published to the post
    tokens,                 \* part_009: rateLimiters.xCacheAPI.tokens
    lastRefill,             \* part_009: rateLimiters.xCacheAPI.lastRefill
    dateNow,                \* part_009: Date.now(), in intervals of one token
    removing                \* part_009: per fetch cycle, where its removeTokens() call is

walkVars == <<conversationMaxTweets, startId, currentTweetId, tweets, visited,
              lookups, walkThrew, wpc, conversation>>
storeVars == <<responsesCollection, responsesUnique, imageVisions>>
jobVars == <<isProcessing, run>>
rankVars == <<selected, lastOp, tweetFetch>>
visionVars == <<imageConcurrency, mediaUrls, tasks, descriptions, apiCalls, clock, calls>>
authorVars == <<authorsCollection, alwaysReplyToUsernames, frequentAuthorIds,
                classification, prioritizedAuthors>>
pipeVars == <<legacyTweet, prompts, unposted, following, REPLY_TO_UNFOLLOWED, published>>
limiterVars == <<tokens, lastRefill, dateNow, removing>>
unitVars == <<rankVars, visionVars, authorVars, pipeVars, limiterVars>>
vars == <<tweetsCollection, walkVars, storeVars, jobVars, unitVars>>

(***************************************************************************)
(* Documents of the tweets collection.                                     *)
(***************************************************************************)
Ref(type, id) == [type |-> type, id |-> id]

TweetDoc(id, refs) ==
    [type |-> "tweet", id |-> id, referenced_tweets |-> refs]

Ids == 1 .. (MaxChain + 1)

\* tweetsCollection.findOne({ id })
FindOne(coll, id) == IF id \in DOMAIN coll THEN coll[id] ELSE NoDoc

StoredIds(coll) == {i \in DOMAIN coll : coll[i] # NoDoc}

(***************************************************************************)
(* TweetService._trimConversation                                          *)
(***************************************************************************)
\* Array.prototype.slice(a, b) of a sequence held 1-based
JsSlice(s, a, b) ==
    LET n == Len(s)
        from == IF a < 0 THEN Max(n + a, 0) ELSE Min(a, n)
        to == IF b < 0 THEN Max(n + b, 0) ELSE Min(b, n)
    IN  IF from >= to THEN <<>> ELSE SubSeq(s, from + 1, to)

\* `... (${n} tweets omitted) ...`
SeparatorText(n) == <<"... (", n, " tweets omitted) ...">>
Separator(n) == [type |-> "separator", text |-> SeparatorText(n)]

HeadCountFloor(maxTweets) == maxTweets \div 2
\* Math.ceil(maxTweets / 2)
HeadCount(maxTweets) == (maxTweets + 1) \div 2
\* Math.floor(maxTweets / 2)
TailCount(maxTweets) == maxTweets \div 2

_trimConversation(tw, maxTweets) ==
    IF Len(tw) <= maxTweets
    THEN tw
    ELSE JsSlice(tw, 0, HeadCount(maxTweets))
           \o <<Separator(Len(tw) - maxTweets)>>
           \o JsSlice(tw, -TailCount(maxTweets), Len(tw))

(***************************************************************************)
(* TweetService._getConversationContext                                    *)
(***************************************************************************)
LoopGuardNoVisited(cur, tw, vis, maxTweets) ==
    /\ cur # NoId
    /\ Len(tw) < maxTweets + TrimBuffer
\* while (currentTweetId && tweets.length < max + 10 && !visited.has(...))
LoopGuard(cur, tw, vis, maxTweets) ==
    /\ cur # NoId
    /\ Len(tw) < maxTweets + TrimBuffer
    /\ cur \notin vis

\* the first reference of any type
RepliedToIndexAnyType(refs) == IF refs = <<>> THEN 0 ELSE 1
\* tweet.referenced_tweets?.find(ref => ref.type === 'replied_to')
RepliedToIndex(refs) ==
    LET hits == {k \in 1 .. Len(refs) : refs[k].type = "replied_to"}
    IN  IF hits = {} THEN 0 ELSE CHOOSE k \in hits : \A j \in hits : k <= j

\* repliedToRef ? repliedToRef.id : null
NextTweetId(tweet) ==
    LET k == RepliedToIndex(tweet.referenced_tweets)
    IN  IF k = 0 THEN NoId ELSE tweet.referenced_tweets[k].id

\* a call _getConversationContext(tweetId)
WalkCall ==
    /\ wpc = "idle"
    /\ currentTweetId' = startId
    /\ tweets' = <<>>
    /\ visited' = {}
    /\ wpc' = "loop"
    /\ UNCHANGED <<unitVars, tweetsCollection, conversationMaxTweets, startId, lookups,
                   walkThrew, conversation, storeVars, jobVars>>

\* one iteration whose findOne returns a document
WalkStep ==
    /\ wpc = "loop"
    /\ LoopGuard(currentTweetId, tweets, visited, conversationMaxTweets)
    /\ FindOne(tweetsCollection, currentTweetId) # NoDoc
    /\ LET tweet == FindOne(tweetsCollection, currentTweetId)
       IN  /\ visited' = visited \cup {currentTweetId}
           /\ lookups' = lookups + 1
           /\ tweets' = <<tweet>> \o tweets
           /\ currentTweetId' = NextTweetId(tweet)
    /\ UNCHANGED <<unitVars, tweetsCollection, conversationMaxTweets, startId, walkThrew,
                   wpc, conversation, storeVars, jobVars>>

\* an iteration whose findOne returns null: break, then return the trimmed thread
WalkNotFound ==
    /\ wpc = "loop"
    /\ LoopGuard(currentTweetId, tweets, visited, conversationMaxTweets)
    /\ FindOne(tweetsCollection, currentTweetId) = NoDoc
    /\ visited' = visited \cup {currentTweetId}
    /\ lookups' = lookups + 1
    /\ conversation' = _trimConversation(tweets, conversationMaxTweets)
    /\ wpc' = "done"
    /\ UNCHANGED <<unitVars, tweetsCollection, conversationMaxTweets, startId,
                   currentTweetId, tweets, walkThrew, storeVars, jobVars>>

\* an iteration whose findOne rejects: the catch returns what was fetched so far
WalkThrow ==
    /\ wpc = "loop"
    /\ LoopGuard(currentTweetId, tweets, visited, conversationMaxTweets)
    /\ visited' = visited \cup {currentTweetId}
    /\ lookups' = lookups + 1
    /\ walkThrew' = TRUE
    /\ conversation' = _trimConversation(tweets, conversationMaxTweets)
    /\ wpc' = "done"
    /\ UNCHANGED <<unitVars, tweetsCollection, conversationMaxTweets, startId,
                   currentTweetId, tweets, storeVars, jobVars>>

\* the loop condition is false: return this._trimConversation(tweets)
WalkReturn ==
    /\ wpc = "loop"
    /\ ~LoopGuard(currentTweetId, tweets, visited, conversationMaxTweets)
    /\ conversation' = _trimConversation(tweets, conversationMaxTweets)
    /\ wpc' = "done"
    /\ UNCHANGED <<unitVars, tweetsCollection, conversationMaxTweets, startId,
                   currentTweetId, tweets, visited, lookups, walkThrew,
                   storeVars, jobVars>>

(***************************************************************************)
(* Configuration (part_002:32-59) and the posts the platform can deliver.  *)
(***************************************************************************)
twitterUserId == "me"
\* CONVERSATION_MAX_TWEETS || '5'
DefaultConversationMaxTweets == 5
\* TWEET_FETCH_LIMIT || '50'
TweetFetchLimit == 50
\* engagement weights 2, 1.5 and 1, in halves
WeightLikesHalves == 4
WeightRetweetsHalves == 3
WeightRepliesHalves == 2
\* created_at of the oldest post the enrichment still looks at
EnrichmentStart == 2

\* config.weights.authorPriority, in tenths
AuthorWeightFollowersTenths == 5
AuthorWeightTweetsTenths == 3
AuthorWeightInteractionsTenths == 2

NoScore == -1
NoMetrics == [type |-> "none"]
NoStatus == [llm_context |-> FALSE, llm_context_at |-> "unset"]
NoAuthor == [type |-> "none"]

Photo(url) == [type |-> "photo", url |-> url]

\* posts as the platform API returns them to the scraper
ApiTweets ==
    <<[type |-> "tweet", id |-> 1, author_id |-> "me", text |-> "gm #AI",
       in_reply_to_user_id |-> "", referenced_tweets |-> <<>>,
       mediaData |-> <<>>, created_at |-> 1,
       public_metrics |-> [like_count |-> 3, retweet_count |-> 1, reply_count |-> 1]],
      [type |-> "tweet", id |-> 2, author_id |-> "alice", text |-> "@bot nice",
       in_reply_to_user_id |-> "me",
       referenced_tweets |-> <<Ref("replied_to", 1)>>,
       mediaData |-> <<>>, created_at |-> 2,
       public_metrics |-> [like_count |-> 1, retweet_count |-> 0, reply_count |-> 1]],
      [type |-> "tweet", id |-> 3, author_id |-> "bob", text |-> "@bot #AI agree",
       in_reply_to_user_id |-> "alice",
       referenced_tweets |-> <<Ref("quoted", 1), Ref("replied_to", 2)>>,
       mediaData |-> <<Photo("u1")>>, created_at |-> 3,
       public_metrics |-> NoMetrics]>>

PostIds == DOMAIN ApiTweets
Urls == {"u1", "u2"}
NoDesc == [kind |-> "none"]
\* what describeImage(url) resolves to
Desc(url) == [kind |-> "described", url |-> url]
\* { url, description, created_at } of image_visions
VisionEntry(url, description, at) ==
    [url |-> url, description |-> description, created_at |-> at]
\* "Image description unavailable due to an error."
Unavailable == [kind |-> "unavailable"]

\* db.collection('authors'): bob has no author document
AuthorDocs ==
    {[id |-> "alice", username |-> "alice", name |-> "Alice"],
     [id |-> "me", username |-> "bot", name |-> "Bot"]}

\* text: { $regex: `@${config.twitterUsername}`, $options: 'i' }
MatchesMention(text) == text \in {"@bot nice", "@bot #AI agree"}
\* a text that matches neither pattern
PlainText == "thanks"
\* text: { $regex: `(#AI|#MachineLearning|@${username})`, $options: 'i' }
MatchesRelated(text) == text \in {"gm #AI", "@bot nice", "@bot #AI agree"}

(***************************************************************************)
(* Scraper: addTweetToMongoDB (part_009:60-86, 713-787)                    *)
(***************************************************************************)
\* updateOne({ id: tweet.id }, { $set: tweet }, { upsert: true })
SetTweetFieldsReplacing(doc, tweet) ==
    [type |-> "tweet", id |-> tweet.id, author_id |-> tweet.author_id,
     text |-> tweet.text, in_reply_to_user_id |-> tweet.in_reply_to_user_id,
     referenced_tweets |-> tweet.referenced_tweets,
     mediaData |-> tweet.mediaData, created_at |-> tweet.created_at,
     public_metrics |-> tweet.public_metrics,
     engagement_score |-> NoScore,
     processing_status |-> NoStatus]
SetTweetFields(doc, tweet) ==
    [type |-> "tweet", id |-> tweet.id, author_id |-> tweet.author_id,
     text |-> tweet.text, in_reply_to_user_id |-> tweet.in_reply_to_user_id,
     referenced_tweets |-> tweet.referenced_tweets,
     mediaData |-> tweet.mediaData, created_at |-> tweet.created_at,
     public_metrics |-> tweet.public_metrics,
     engagement_score |-> IF doc = NoDoc THEN NoScore ELSE doc.engagement_score,
     processing_status |-> IF doc = NoDoc THEN NoStatus ELSE doc.processing_status]

addTweetToMongoDB(p) ==
    /\ tweetsCollection' =
          [tweetsCollection EXCEPT ![p] = SetTweetFields(tweetsCollection[p], ApiTweets[p])]
    /\ UNCHANGED <<walkVars, unitVars, storeVars, jobVars>>

(***************************************************************************)
(* TweetService.calculateEngagementScore, enrichTweetsWithEngagement       *)
(***************************************************************************)
\* tweet.public_metrics?.x, with 0 for undefined
NestedCounter(tweet, c) ==
    IF tweet.public_metrics # NoMetrics /\ c \in DOMAIN tweet.public_metrics
    THEN tweet.public_metrics[c]
    ELSE 0
\* tweet.x, with 0 for undefined
FlatCounter(tweet, c) == IF c \in DOMAIN tweet THEN tweet[c] ELSE 0
\* tweet.public_metrics?.x || tweet.x || 0
Counter(tweet, c) ==
    IF NestedCounter(tweet, c) # 0 THEN NestedCounter(tweet, c) ELSE FlatCounter(tweet, c)

\* the score in halves, the weights of likes and retweets exchanged
calculateEngagementScoreSwapped(tweet) ==
    Counter(tweet, "like_count") * WeightRetweetsHalves
      + Counter(tweet, "retweet_count") * WeightLikesHalves
      + Counter(tweet, "reply_count") * WeightRepliesHalves
\* the score in halves
calculateEngagementScore(tweet) ==
    Counter(tweet, "like_count") * WeightLikesHalves
      + Counter(tweet, "retweet_count") * WeightRetweetsHalves
      + Counter(tweet, "reply_count") * WeightRepliesHalves

\* the find() of enrichTweetsWithEngagement, without its $exists: false
NeedsEnrichmentScored(doc) ==
    /\ doc # NoDoc
    /\ \/ "like_count" \in DOMAIN doc.public_metrics
       \/ "like_count" \in DOMAIN doc
    /\ doc.created_at >= EnrichmentStart
\* the find() of enrichTweetsWithEngagement
NeedsEnrichment(doc) ==
    /\ doc # NoDoc
    /\ doc.engagement_score = NoScore
    /\ \/ "like_count" \in DOMAIN doc.public_metrics
       \/ "like_count" \in DOMAIN doc
    /\ doc.created_at >= EnrichmentStart

\* bulkWrite of { $set: { engagement_score } } per found post
Enriched(coll) ==
    [i \in DOMAIN coll |->
        IF NeedsEnrichment(coll[i])
        THEN [coll[i] EXCEPT !.engagement_score = calculateEngagementScore(coll[i])]
        ELSE coll[i]]

(***************************************************************************)
(* TweetService.getPrioritizedTweets                                       *)
(***************************************************************************)
\* commonFilter
CommonFilterNoMarker(doc) ==
    /\ doc # NoDoc
    /\ doc.author_id # twitterUserId
CommonFilter(doc) ==
    /\ doc # NoDoc
    /\ doc.author_id # twitterUserId
    /\ doc.processing_status.llm_context # TRUE

\* sort({ created_at: -1 })
ComesBeforeRecent(a, b) == a.created_at > b.created_at
\* sort({ engagement_score: -1, created_at: -1 })
ComesBefore(a, b) ==
    \/ a.engagement_score > b.engagement_score
    \/ /\ a.engagement_score = b.engagement_score
       /\ a.created_at > b.created_at

RECURSIVE Sorted(_)
Sorted(docs) ==
    IF docs = {} THEN <<>>
    ELSE LET first == CHOOSE d \in docs : \A e \in docs \ {d} : ComesBefore(d, e)
         IN  <<first>> \o Sorted(docs \ {first})

LimitNone(seq, n) == seq
Limit(seq, n) == SubSeq(seq, 1, Min(Len(seq), n))

IsMention(doc) == MatchesMention(doc.text)
IsReply(doc) == doc.in_reply_to_user_id = twitterUserId
IsRelated(doc) == MatchesRelated(doc.text)

\* the predicate each of the three queries adds to commonFilter
Matches(kind, doc) ==
    IF kind = "mentions" THEN IsMention(doc)
    ELSE IF kind = "replies" THEN IsReply(doc)
    ELSE IsRelated(doc)

\* find(filter).sort(commonSort).limit(limit).toArray()
Query(coll, kind, limit) ==
    Limit(Sorted({coll[i] : i \in {j \in DOMAIN coll :
                                        CommonFilter(coll[j]) /\ Matches(kind, coll[j])}}),
          limit)

\* Array.from(new Map(list.map(t => [t.id, t])).values()): a key keeps the
\* position of its first occurrence and the value of its last
RECURSIVE UniqueById(_, _)
UniqueById(list, seen) ==
    IF list = <<>> THEN <<>>
    ELSE IF Head(list).id \in seen THEN UniqueById(Tail(list), seen)
    ELSE <<Head(list)>> \o UniqueById(Tail(list), seen \cup {Head(list).id})

getPrioritizedTweets(coll, limit) ==
    UniqueById(Query(coll, "mentions", limit) \o Query(coll, "replies", limit)
                   \o Query(coll, "related", limit),
               {})

(***************************************************************************)
(* ResponseContextBuilder of the v2 job (part_002:416-574)                 *)
(***************************************************************************)
\* the loop of _getConversationContext run to its end; the failAt-th findOne
\* rejects (0: none does) and the catch keeps what was fetched so far
RECURSIVE WalkFrom(_, _, _, _, _, _, _)
WalkFrom(coll, cur, tw, vis, maxTweets, n, failAt) ==
    IF ~LoopGuard(cur, tw, vis, maxTweets) THEN tw
    ELSE IF n + 1 = failAt THEN tw
    ELSE LET tweet == FindOne(coll, cur)
         IN  IF tweet = NoDoc THEN tw
             ELSE WalkFrom(coll, NextTweetId(tweet), <<tweet>> \o tw,
                           vis \cup {cur}, maxTweets, n + 1, failAt)

_getConversationContext(coll, tweetId, failAt) ==
    _trimConversation(
        WalkFrom(coll, tweetId, <<>>, {}, DefaultConversationMaxTweets, 0, failAt),
        DefaultConversationMaxTweets)

\* RECENT_CONTEXT_LIMIT || '3'
RecentContextLimit == 3

NoRecent == [kind |-> "none", items |-> <<>>]
RecentError == [kind |-> "error", items |-> <<>>]

RECURSIVE Reverse(_)
Reverse(seq) == IF seq = <<>> THEN <<>> ELSE Reverse(Tail(seq)) \o <<Head(seq)>>

RECURSIVE SelectSeqBy(_, _)
SelectSeqBy(seq, authorId) ==
    IF seq = <<>> THEN <<>>
    ELSE LET r == Head(seq)
             rest == SelectSeqBy(Tail(seq), authorId)
         IN  IF r.author_id = authorId /\ r.response # "" /\ r.created_at
             THEN <<r>> \o rest
             ELSE rest

\* _getRecentContext(authorId); ok = the find() did not reject
_getRecentContext(responses, authorId, ok) ==
    IF authorId = "" \/ authorId = "N/A" THEN NoRecent
    ELSE IF ~ok THEN RecentError
    ELSE LET found == Limit(Reverse(SelectSeqBy(responses, authorId)), RecentContextLimit)
         IN  IF found = <<>> THEN NoRecent
             ELSE [kind |-> "list",
                   items |-> [k \in DOMAIN found |->
                                [prompt |-> found[k].prompt,
                                 response |-> found[k].response]]]

\* tweet.mediaData?.filter(m => m.type === 'photo').map(m => m.url) || []
PhotoUrls(tweet) ==
    LET media == tweet.mediaData
        RECURSIVE Pick(_)
        Pick(k) == IF k > Len(media) THEN <<>>
                   ELSE IF media[k].type = "photo" THEN <<media[k].url>> \o Pick(k + 1)
                   ELSE Pick(k + 1)
    IN  Pick(1)

\* one task of _processImagesWithConcurrency: ok = neither the cache read, the
\* collaborator nor the cache write rejected
DescribeOne(cache, url, ok) ==
    IF ~ok THEN Unavailable
    ELSE IF cache[url] # NoDesc THEN cache[url].description
    ELSE Desc(url)

\* the cache after the tasks of one call
CacheAfter(cache, urls, oks, now) ==
    [u \in DOMAIN cache |->
        IF /\ \E k \in DOMAIN urls : urls[k] = u
           /\ oks[u]
           /\ cache[u] = NoDesc
        THEN VisionEntry(u, Desc(u), now)
        ELSE cache[u]]

\* _getVisionContext(tweet): '' without photos, else the descriptions
_getVisionContext(cache, tweet, oks) ==
    LET urls == PhotoUrls(tweet)
    IN  [k \in DOMAIN urls |-> DescribeOne(cache, urls[k], oks[urls[k]])]

UnknownAuthor == [id |-> "N/A", username |-> "Unknown", name |-> "Unknown Author"]

\* author || { username: 'Unknown', id: 'N/A', name: 'Unknown Author' }
AuthorDetails(author) == IF author = NoAuthor THEN UnknownAuthor ELSE author

\* one line of conversationText
ConversationLine(t, author) ==
    IF t.type = "separator"
    THEN [speaker |-> "", text |-> t.text]
    ELSE [speaker |-> IF t.author_id = twitterUserId THEN "Me"
                      ELSE IF t.author_id = author.id THEN author.username
                      ELSE "Other",
          text |-> t.text]

\* conversation.find(t => t.id === tweet.id)?.text || tweet.text
TargetText(conv, tweet) ==
    LET hits == {k \in DOMAIN conv : conv[k].type = "tweet" /\ conv[k].id = tweet.id}
    IN  IF hits = {} THEN tweet.text
        ELSE conv[CHOOSE k \in hits : \A j \in hits : k <= j].text

\* _formatPrompt with the thread ahead of the digest
_formatPromptThreadFirst(conv, recentContext, visionContext, author, tweet) ==
    <<[section |-> "header", author |-> author]>>
      \o (IF conv # <<>>
          THEN <<[section |-> "conversation",
                  body |-> [k \in DOMAIN conv |-> ConversationLine(conv[k], author)]]>>
          ELSE <<>>)
      \o (IF recentContext.kind # "none"
          THEN <<[section |-> "recent", body |-> recentContext]>> ELSE <<>>)
      \o (IF visionContext # <<>>
          THEN <<[section |-> "vision", body |-> visionContext]>> ELSE <<>>)
      \o <<[section |-> "target", author |-> author.username,
            text |-> TargetText(conv, tweet)]>>

\* _formatPrompt: the sections that are not empty, in order
_formatPrompt(conv, recentContext, visionContext, author, tweet) ==
    <<[section |-> "header", author |-> author]>>
      \o (IF recentContext.kind # "none"
          THEN <<[section |-> "recent", body |-> recentContext]>> ELSE <<>>)
      \o (IF conv # <<>>
          THEN <<[section |-> "conversation",
                  body |-> [k \in DOMAIN conv |-> ConversationLine(conv[k], author)]]>>
          ELSE <<>>)
      \o (IF visionContext # <<>>
          THEN <<[section |-> "vision", body |-> visionContext]>> ELSE <<>>)
      \o <<[section |-> "target", author |-> author.username,
            text |-> TargetText(conv, tweet)]>>

\* the string the catch of buildContext returns
ErrorContextNoText(tweet, author) ==
    <<[section |-> "error", author |-> author.username, id |-> tweet.id]>>
ErrorContext(tweet, author) ==
    <<[section |-> "error", author |-> author.username, id |-> tweet.id,
       text |-> tweet.text]>>

\* { $set: { 'processing_status.llm_context': true, '...llm_context_at': new Date() } }
MarkProcessedToggling(doc) ==
    [doc EXCEPT !.processing_status =
        [llm_context |-> ~doc.processing_status.llm_context,
         llm_context_at |-> "date"]]
MarkProcessed(doc) ==
    [doc EXCEPT !.processing_status =
        [llm_context |-> TRUE,
         llm_context_at |-> "date"]]

(***************************************************************************)
(* The v1 job's services (llm_response_context.mjs:33-224)                 *)
(***************************************************************************)
V1Filter(doc) ==
    /\ doc # NoDoc
    /\ doc.author_id # twitterUserId
    /\ doc.processing_status.llm_context # TRUE

\* sort({ created_at: -1 })
RECURSIVE V1Sorted(_)
V1Sorted(docs) ==
    IF docs = {} THEN <<>>
    ELSE LET first == CHOOSE d \in docs : \A e \in docs \ {d} : d.created_at > e.created_at
         IN  <<first>> \o V1Sorted(docs \ {first})

\* TweetService.getPrioritizedTweets: [...mentions, ...replies]
V1getPrioritizedTweets(coll) ==
    V1Sorted({coll[i] : i \in {j \in DOMAIN coll : V1Filter(coll[j]) /\ IsMention(coll[j])}})
      \o V1Sorted({coll[i] : i \in {j \in DOMAIN coll : V1Filter(coll[j]) /\ IsReply(coll[j])}})

\* TweetService.getConversationContext(tweetId, maxTweets = 5)
RECURSIVE V1WalkFrom(_, _, _)
V1WalkFrom(coll, currentTweet, tw) ==
    IF currentTweet = NoDoc \/ Len(tw) >= DefaultConversationMaxTweets THEN tw
    ELSE IF currentTweet.referenced_tweets = <<>> THEN <<currentTweet>> \o tw
    ELSE V1WalkFrom(coll, FindOne(coll, currentTweet.referenced_tweets[1].id),
                    <<currentTweet>> \o tw)

\* TweetService.trimConversation
V1trimConversation(tw) ==
    IF Len(tw) <= 5 THEN tw
    ELSE JsSlice(tw, 0, 2) \o <<Separator(Len(tw) - 5)>> \o JsSlice(tw, -3, Len(tw))

V1getConversationContext(coll, tweetId) ==
    V1trimConversation(V1WalkFrom(coll, FindOne(coll, tweetId), <<>>))

RECURSIVE V1SelectSeqBy(_, _)
V1SelectSeqBy(seq, authorId) ==
    IF seq = <<>> THEN <<>>
    ELSE LET r == Head(seq)
             rest == V1SelectSeqBy(Tail(seq), authorId)
         IN  IF r.author_id = authorId /\ r.response # "" /\ r.created_at
             THEN <<r>> \o rest
             ELSE rest

\* ResponseContextBuilder.getRecentContext
V1getRecentContext(responses, author) ==
    LET found == Limit(Reverse(V1SelectSeqBy(responses, author.id)), 3)
    IN  IF found = <<>> THEN NoRecent
        ELSE [kind |-> "list",
              items |-> [k \in DOMAIN found |->
                           [prompt |-> found[k].prompt, response |-> found[k].response]]]

\* ResponseContextBuilder.processImages: a URL whose description fails is left out
RECURSIVE V1processImages(_, _, _)
V1processImages(cache, urls, oks) ==
    IF urls = <<>> THEN <<>>
    ELSE LET u == Head(urls)
             rest == V1processImages(cache, Tail(urls), oks)
         IN  IF cache[u] # NoDesc THEN <<cache[u].description>> \o rest
             ELSE IF oks[u] THEN <<Desc(u)>> \o rest
             ELSE rest

\* ResponseContextBuilder.formatPrompt
V1formatPrompt(conv, recentContext, visionContext, author) ==
    <<[section |-> "header", author |-> author]>>
      \o (IF recentContext.kind # "none"
          THEN <<[section |-> "recent", body |-> recentContext]>> ELSE <<>>)
      \o <<[section |-> "conversation",
            body |-> [k \in DOMAIN conv |->
                        IF conv[k].type = "separator"
                        THEN [speaker |-> "", text |-> conv[k].text]
                        ELSE [speaker |-> IF conv[k].author_id = author.id
                                          THEN author.username ELSE "Other",
                              text |-> conv[k].text]]]>>
      \o (IF visionContext # <<>>
          THEN <<[section |-> "vision", body |-> visionContext]>> ELSE <<>>)

(***************************************************************************)
(* The responses collection.                                               *)
(***************************************************************************)
\* the first document matching { tweet_id }, 0 when there is none
FindResponse(responses, tweetId) ==
    LET hits == {k \in DOMAIN responses : responses[k].tweet_id = tweetId}
    IN  IF hits = {} THEN 0 ELSE CHOOSE k \in hits : \A j \in hits : k <= j

ResponsesFor(responses, tweetId) ==
    {k \in DOMAIN responses : responses[k].tweet_id = tweetId}

\* createIndex({ tweet_id: 1 }): an index that does not enforce uniqueness
CreateIndexNotUnique(responses) == FALSE
\* createIndex({ tweet_id: 1 }, { unique: true }): built unless the collection
\* already holds two documents with one tweet_id
CreateIndex(responses) ==
    \A a, b \in DOMAIN responses :
        responses[a].tweet_id = responses[b].tweet_id => a = b

\* what a template renders of the prompt of a document that carries none
NoPrompt == <<[section |-> "undefined"]>>
\* the context getTweetResponseContext of the legacy builder returns
LegacyPrompt == <<[section |-> "legacy"]>>

\* the document an upsert inserts before its update is applied; a field the
\* document does not carry is "" (context: <<>>, prompt: NoPrompt)
NewResponse(tweetId, withCreatedAt) ==
    [tweet_id |-> tweetId, context |-> <<>>, author_id |-> "", author_username |-> "",
     processed_by |-> "", processed_at |-> "", prompt |-> NoPrompt, response |-> "",
     response_generated_at |-> "", posted |-> "", response_id |-> "", error |-> "",
     created_at |-> withCreatedAt]

\* a replacement of the document by the fields of the v2 upsert
V2SetFieldsReplacing(doc, tweet, author, context) ==
    [NewResponse(doc.tweet_id, doc.created_at)
        EXCEPT !.context = context,
               !.author_id = tweet.author_id,
               !.author_username = IF author = NoAuthor THEN "Unknown" ELSE author.username,
               !.processed_by = "llm_context_builder_v2",
               !.processed_at = "date"]
\* the $set (and $setOnInsert) of the v2 upsert applied to a document
V2SetFields(doc, tweet, author, context) ==
    [doc EXCEPT !.context = context,
                !.author_id = tweet.author_id,
                !.author_username = IF author = NoAuthor THEN "Unknown" ELSE author.username,
                !.processed_by = "llm_context_builder_v2",
                !.processed_at = "date"]

\* the $set of the v1 upsert applied to a document
V1SetFields(doc, context) ==
    [doc EXCEPT !.context = context, !.processed_by = "llm_context",
                !.processed_at = "date"]


(***************************************************************************)
(* The jobs: main of part_002 (582-695) and of llm_response_context.mjs    *)
(* (226-275), one run at a time per job.                                   *)
(***************************************************************************)
\* "v2" is the run of part_002's main, which isProcessing keeps alone;
\* "v1a" and "v1b" are two runs of llm_response_context.mjs's main, which
\* setInterval starts whether or not the previous one has returned
Jobs == {"v1a", "v1b", "v2"}
V1Jobs == {"v1a", "v1b"}
IsV2(j) == j = "v2"
\* the runs that live in the process of job j
SameProcess(j) == IF IsV2(j) THEN {"v2"} ELSE V1Jobs

IdleRun ==
    [pc |-> "idle", queue |-> <<>>, tweet |-> NoDoc, author |-> NoAuthor,
     authors |-> {}, conversation |-> <<>>, recentContext |-> NoRecent,
     visionContext |-> <<>>, context |-> <<>>, found |-> 0,
     processedCount |-> 0, failedCount |-> 0,
     \* dbService.db is set: connect() has resolved in this run
     connected |-> FALSE,
     \* history: the post of the run's latest completed upsert, and whether
     \* the one before it was for the same post
     last |-> NoId, twice |-> FALSE,
     \* ... and what the generator and the publisher had written on the
     \* record of that post before the upsert
     before |-> <<"", "", "", "">>,
     \* ... and what became of the latest call of main() that found the run
     \* in progress or the lock held: "skipped" or "started"
     second |-> "none"]

\* the response generator and the publisher have not run
PipeAtRest ==
    /\ legacyTweet = NoId
    /\ prompts = <<>>
    /\ unposted = <<>>
    /\ following = {}
    /\ REPLY_TO_UNFOLLOWED = FALSE
    /\ published = [p \in PostIds |-> 0]

\* the fetch cycles that call rateLimiters.xCacheAPI.removeTokens()
Cycles == {"mentions", "conversations"}

\* new AdaptiveRateLimiter(maxRequests, perMilliseconds): a full bucket
LimiterAtRest ==
    /\ tokens = MaxRequests
    /\ lastRefill = 0
    /\ dateNow = 0
    /\ removing = [c \in Cycles |-> [pc |-> "idle", wakeAt |-> 0]]

\* nothing of TweetService, of the image cache or of the author classification
\* has been called
UnitsIdle ==
    /\ selected = <<>>
    /\ lastOp = "none"
    /\ imageConcurrency = DefaultImageConcurrency
    /\ mediaUrls = <<>>
    /\ tasks = <<>>
    /\ descriptions = <<>>
    /\ apiCalls = [u \in Urls |-> 0]
    /\ clock = 0
    /\ calls = <<>>
    /\ authorsCollection = <<>>
    /\ alwaysReplyToUsernames = {}
    /\ frequentAuthorIds = {}
    /\ classification = <<>>
    /\ prioritizedAuthors = <<>>
    /\ PipeAtRest
    /\ LimiterAtRest

\* the units at rest under the default limit of the queries
UnitsAtRest ==
    /\ tweetFetch = TweetFetchLimit
    /\ UnitsIdle

JobsAtRest ==
    /\ responsesCollection = <<>>
    /\ responsesUnique = FALSE
    /\ imageVisions = [u \in Urls |-> NoDesc]
    /\ isProcessing = FALSE
    /\ run = [j \in Jobs |-> IdleRun]

At(j, pc) == run[j].pc = pc
Goto(j, pc) == run' = [run EXCEPT ![j].pc = pc]

\* main() without its guard
MainSkipsNever(lock) == FALSE
\* if (isProcessing) { ...; return; }
MainSkips(lock) == lock

\* the cron tick or interval, and the initial call of startLoop
Trigger(j) ==
    /\ At(j, "idle")
    /\ IsV2(j) => ~MainSkips(isProcessing)
    /\ isProcessing' = IF IsV2(j) THEN TRUE ELSE isProcessing
    /\ Goto(j, "connect")
    /\ UNCHANGED <<tweetsCollection, walkVars, unitVars, storeVars>>

\* main() called while a run is in progress or the lock is held: "Skipping
\* run" and return; past the guard it would take the lock and start a second
\* run next to the first
V2_TriggerAgain ==
    /\ ~At("v2", "idle") \/ MainSkips(isProcessing)
    /\ run' = [run EXCEPT !["v2"].second =
                  IF MainSkips(isProcessing) THEN "skipped" ELSE "started"]
    /\ isProcessing' = IF MainSkips(isProcessing) THEN isProcessing ELSE TRUE
    /\ UNCHANGED <<tweetsCollection, walkVars, unitVars, storeVars>>

\* dbService.connect(); the v1 job's connect also creates the indexes
Connect(j) ==
    /\ At(j, "connect")
    /\ responsesUnique' = IF IsV2(j) THEN responsesUnique
                          ELSE responsesUnique \/ CreateIndex(responsesCollection)
    /\ run' = [run EXCEPT ![j].pc = IF IsV2(j) THEN "prepare" ELSE "select",
                          ![j].connected = TRUE]
    /\ UNCHANGED <<tweetsCollection, walkVars, unitVars, responsesCollection, imageVisions,
                   isProcessing>>

\* connect() rejects: v2 logs and runs its finally, v1 calls process.exit(1)
ConnectFails(j) ==
    /\ At(j, "connect")
    /\ run' = IF IsV2(j) THEN [run EXCEPT ![j] = [IdleRun EXCEPT !.pc = "close"]]
               ELSE [k \in Jobs |-> IF k \in V1Jobs THEN IdleRun ELSE run[k]]
    /\ UNCHANGED <<tweetsCollection, walkVars, unitVars, storeVars, isProcessing>>

\* Promise.all([enrichTweetsWithEngagement(), prioritizeAuthors()]); each
\* catches its own failure
V2_Prepare ==
    /\ At("v2", "prepare")
    /\ \E enrichOk \in BOOLEAN, authorsOk \in BOOLEAN :
          /\ tweetsCollection' = IF enrichOk THEN Enriched(tweetsCollection)
                                 ELSE tweetsCollection
          /\ run' = [run EXCEPT !["v2"].pc = "select",
                                !["v2"].authors = IF authorsOk THEN AuthorDocs ELSE {}]
    /\ UNCHANGED <<walkVars, unitVars, storeVars, isProcessing>>

\* tweetService.getPrioritizedTweets(): [] when a query rejects; an empty
\* list ends the run
V2_Select ==
    /\ At("v2", "select")
    /\ \E ok \in BOOLEAN :
          LET list == IF ok THEN getPrioritizedTweets(tweetsCollection, tweetFetch) ELSE <<>>
          IN  run' = [run EXCEPT !["v2"].pc = IF list = <<>> THEN "close" ELSE "loop",
                                 !["v2"].queue = list]
    /\ UNCHANGED <<tweetsCollection, walkVars, unitVars, storeVars, isProcessing>>

V1_Select(j) ==
    /\ At(j, "select")
    /\ run' = [run EXCEPT ![j].pc = "loop",
                          ![j].queue = V1getPrioritizedTweets(tweetsCollection)]
    /\ UNCHANGED <<tweetsCollection, walkVars, unitVars, storeVars, isProcessing>>

\* a query of the v1 selection rejects: the fatal catch calls process.exit(1)
V1_SelectFails(j) ==
    /\ At(j, "select")
    /\ run' = [k \in Jobs |-> IF k \in V1Jobs THEN IdleRun ELSE run[k]]
    /\ UNCHANGED <<tweetsCollection, walkVars, unitVars, storeVars, isProcessing>>

\* the for loop has no tweet left
LoopDone(j) ==
    /\ At(j, "loop")
    /\ run[j].queue = <<>>
    /\ run' = [run EXCEPT ![j] = [IdleRun EXCEPT !.pc = "close",
                                                 !.connected = run[j].connected]]
    /\ UNCHANGED <<tweetsCollection, walkVars, unitVars, storeVars, isProcessing>>

AuthorOf(docs, authorId) ==
    IF \E a \in docs : a.id = authorId
    THEN CHOOSE a \in docs : a.id = authorId
    ELSE NoAuthor

\* next tweet of the loop: authorMap.get(tweet.author_id), null allowed
V2_TakeTweet ==
    /\ At("v2", "loop")
    /\ run["v2"].queue # <<>>
    /\ LET tweet == Head(run["v2"].queue)
       IN  run' = [run EXCEPT !["v2"].pc = "gather",
                              !["v2"].queue = Tail(@),
                              !["v2"].tweet = tweet,
                              !["v2"].author = AuthorOf(run["v2"].authors, tweet.author_id)]
    /\ UNCHANGED <<tweetsCollection, walkVars, unitVars, storeVars, isProcessing>>

\* next tweet of the loop: authors.findOne({ id: tweet.author_id }) finds it
V1_TakeTweet(j) ==
    /\ At(j, "loop")
    /\ run[j].queue # <<>>
    /\ LET tweet == Head(run[j].queue)
       IN  /\ AuthorOf(AuthorDocs, tweet.author_id) # NoAuthor
           /\ run' = [run EXCEPT ![j].pc = "gather",
                                 ![j].queue = Tail(@),
                                 ![j].tweet = tweet,
                                 ![j].author = AuthorOf(AuthorDocs, tweet.author_id)]
    /\ UNCHANGED <<tweetsCollection, walkVars, unitVars, storeVars, isProcessing>>

\* the author is missing ("skipping") or the lookup rejects (caught per tweet)
V1_SkipTweet(j) ==
    /\ At(j, "loop")
    /\ run[j].queue # <<>>
    /\ run' = [run EXCEPT ![j].queue = Tail(@)]
    /\ UNCHANGED <<tweetsCollection, walkVars, unitVars, storeVars, isProcessing>>

\* what can go wrong while one post's context is gathered: the failAt-th
\* lookup of the walk, the recent-responses query or the image tasks reject
GatherFaults ==
    {[failAt |-> 0, recentOk |-> TRUE, visionOk |-> TRUE],
     [failAt |-> 1, recentOk |-> TRUE, visionOk |-> TRUE],
     [failAt |-> 2, recentOk |-> TRUE, visionOk |-> TRUE],
     [failAt |-> 0, recentOk |-> FALSE, visionOk |-> TRUE],
     [failAt |-> 0, recentOk |-> TRUE, visionOk |-> FALSE],
     [failAt |-> 1, recentOk |-> FALSE, visionOk |-> FALSE]}

\* the loop moves on: the locals of the iteration are gone; v2 counts the
\* iteration as processed (ok) or failed
NextIteration(j, ok) ==
    run' = [run EXCEPT ![j] =
              [IdleRun EXCEPT
                  !.pc = "loop",
                  !.queue = run[j].queue,
                  !.authors = run[j].authors,
                  !.connected = run[j].connected,
                  !.processedCount = run[j].processedCount
                                       + (IF IsV2(j) /\ ok THEN 1 ELSE 0),
                  !.failedCount = run[j].failedCount
                                    + (IF IsV2(j) /\ ~ok THEN 1 ELSE 0),
                  !.last = IF ok THEN run[j].tweet.id ELSE run[j].last,
                  !.twice = IF ok THEN run[j].last = run[j].tweet.id
                            ELSE run[j].twice,
                  !.before =
                      IF ok
                      THEN LET k == FindResponse(responsesCollection, run[j].tweet.id)
                           IN  IF k = 0 THEN <<"", "", "", "">>
                               ELSE <<responsesCollection[k].response,
                                      responsesCollection[k].response_generated_at,
                                      responsesCollection[k].posted,
                                      responsesCollection[k].response_id>>
                      ELSE run[j].before]]

\* buildContext of v2: Promise.all of the three gathering steps, each of
\* which catches its own failures
V2_Gather ==
    /\ At("v2", "gather")
    /\ LET tweet == run["v2"].tweet
           author == AuthorDetails(run["v2"].author)
       IN  \E f \in GatherFaults :
              LET oks == [u \in Urls |-> f.visionOk]
              IN  /\ run' = [run EXCEPT
                        !["v2"].pc = "mark",
                        !["v2"].conversation =
                            _getConversationContext(tweetsCollection, tweet.id, f.failAt),
                        !["v2"].recentContext =
                            _getRecentContext(responsesCollection, author.id, f.recentOk),
                        !["v2"].visionContext =
                            _getVisionContext(imageVisions, tweet, oks)]
                  /\ imageVisions' = CacheAfter(imageVisions, PhotoUrls(tweet), oks, clock)
    /\ UNCHANGED <<tweetsCollection, walkVars, unitVars, responsesCollection, responsesUnique,
                   isProcessing>>

\* buildContext of v2: the marker write, before the prompt is composed
V2_Mark ==
    /\ At("v2", "mark")
    /\ tweetsCollection' =
          [tweetsCollection EXCEPT ![run["v2"].tweet.id] =
              IF @ = NoDoc THEN @ ELSE MarkProcessed(@)]
    /\ Goto("v2", "format")
    /\ UNCHANGED <<walkVars, unitVars, storeVars, isProcessing>>

\* the marker write rejects: the catch of buildContext returns the minimal context
V2_MarkThrows ==
    /\ At("v2", "mark")
    /\ run' = [run EXCEPT
          !["v2"].pc = "upsert",
          !["v2"].context = ErrorContext(run["v2"].tweet, AuthorDetails(run["v2"].author))]
    /\ UNCHANGED <<tweetsCollection, walkVars, unitVars, storeVars, isProcessing>>

\* buildContext of v2: return this._formatPrompt(...)
V2_Format ==
    /\ At("v2", "format")
    /\ run' = [run EXCEPT
          !["v2"].pc = "upsert",
          !["v2"].context =
              _formatPrompt(run["v2"].conversation, run["v2"].recentContext,
                            run["v2"].visionContext, AuthorDetails(run["v2"].author),
                            run["v2"].tweet)]
    /\ UNCHANGED <<tweetsCollection, walkVars, unitVars, storeVars, isProcessing>>

\* buildContext of v1: the three gathering steps in sequence
V1_Gather(j) ==
    /\ At(j, "gather")
    /\ LET tweet == run[j].tweet
       IN  \E oks \in [Urls -> BOOLEAN] :
              /\ run' = [run EXCEPT
                    ![j].pc = "mark",
                    ![j].conversation =
                        V1getConversationContext(tweetsCollection, tweet.id),
                    ![j].recentContext =
                        V1getRecentContext(responsesCollection, run[j].author),
                    ![j].visionContext =
                        V1processImages(imageVisions, PhotoUrls(tweet), oks)]
              /\ imageVisions' = CacheAfter(imageVisions, PhotoUrls(tweet), oks, clock)
    /\ UNCHANGED <<tweetsCollection, walkVars, unitVars, responsesCollection, responsesUnique,
                   isProcessing>>

\* a store call of v1's buildContext rejects before or at the marker write:
\* nothing catches it but the loop's per-tweet catch
V1_BuildThrows(j) ==
    /\ run[j].pc \in {"gather", "mark"}
    /\ NextIteration(j, FALSE)
    /\ UNCHANGED <<tweetsCollection, walkVars, unitVars, storeVars, isProcessing>>

\* buildContext of v1: the marker write, before the prompt is composed
V1_Mark(j) ==
    /\ At(j, "mark")
    /\ tweetsCollection' =
          [tweetsCollection EXCEPT ![run[j].tweet.id] =
              IF @ = NoDoc THEN @ ELSE MarkProcessed(@)]
    /\ Goto(j, "format")
    /\ UNCHANGED <<walkVars, unitVars, storeVars, isProcessing>>

\* buildContext of v1: return this.formatPrompt(...)
V1_Format(j) ==
    /\ At(j, "format")
    /\ run' = [run EXCEPT
          ![j].pc = "upsert",
          ![j].context =
              V1formatPrompt(run[j].conversation, run[j].recentContext,
                             run[j].visionContext, run[j].author)]
    /\ UNCHANGED <<tweetsCollection, walkVars, unitVars, storeVars, isProcessing>>

\* responses.updateOne({ tweet_id }, ..., { upsert: true }): the store looks
\* for a matching document
UpsertFind(j) ==
    /\ At(j, "upsert")
    /\ run' = [run EXCEPT
          ![j].pc = "upsertWrite",
          ![j].found = FindResponse(responsesCollection, run[j].tweet.id)]
    /\ UNCHANGED <<tweetsCollection, walkVars, unitVars, storeVars, isProcessing>>

\* the document the job's update leaves
Updated(j, doc) ==
    IF IsV2(j)
    THEN V2SetFields(doc, run[j].tweet, run[j].author, run[j].context)
    ELSE V1SetFields(doc, run[j].context)

\* ... and then updates the document it found, or inserts one; an insert
\* that meets a document inserted meanwhile is rejected by the unique index
\* and applied as an update, and goes through without the index
UpsertWrite(j) ==
    /\ At(j, "upsertWrite")
    /\ LET tweetId == run[j].tweet.id
           now == FindResponse(responsesCollection, tweetId)
           k == IF run[j].found # 0 THEN run[j].found
                ELSE IF now # 0 /\ responsesUnique THEN now
                ELSE 0
       IN  responsesCollection' =
              IF k # 0
              THEN [responsesCollection EXCEPT ![k] = Updated(j, @)]
              ELSE Append(responsesCollection, Updated(j, NewResponse(tweetId, IsV2(j))))
    /\ NextIteration(j, TRUE)
    /\ UNCHANGED <<tweetsCollection, walkVars, unitVars, responsesUnique, imageVisions,
                   isProcessing>>

\* the updateOne rejects: the per-tweet catch logs it and the loop goes on
UpsertThrows(j) ==
    /\ run[j].pc \in {"upsert", "upsertWrite"}
    /\ NextIteration(j, FALSE)
    /\ UNCHANGED <<tweetsCollection, walkVars, unitVars, storeVars, isProcessing>>

\* the lock after the finally of main, without its isProcessing = false
ReleaseLockNever(j, lock) == lock
\* the lock after the finally of main: isProcessing = false in part_002
ReleaseLock(j, lock) == IF IsV2(j) THEN FALSE ELSE lock

\* finally: close the connection; v2 releases its lock
Close(j) ==
    /\ At(j, "close")
    /\ run' = [run EXCEPT ![j] = IdleRun]
    /\ isProcessing' = ReleaseLock(j, isProcessing)
    /\ UNCHANGED <<tweetsCollection, walkVars, unitVars, storeVars>>

\* finally of part_002: dbService.close() rejects on the open connection,
\* so isProcessing = false is not reached and main() rejects with nothing to
\* catch it; the rejection is logged and the lock stays, or it ends the
\* process and the lock goes with it
CloseThrows(j) ==
    /\ IsV2(j)
    /\ At(j, "close")
    /\ run[j].connected
    /\ run' = [run EXCEPT ![j] = IdleRun]
    /\ \E exits \in BOOLEAN : isProcessing' = IF exits THEN FALSE ELSE isProcessing
    /\ UNCHANGED <<tweetsCollection, walkVars, unitVars, storeVars>>

\* the process of the job is killed and started again: its memory is lost
\* (which at "close" is what closing does)
Kill(j) ==
    /\ run[j].pc \notin {"idle", "close"}
    /\ run' = [k \in Jobs |-> IF k \in SameProcess(j) THEN IdleRun ELSE run[k]]
    /\ isProcessing' = IF IsV2(j) THEN FALSE ELSE isProcessing
    /\ UNCHANGED <<tweetsCollection, walkVars, unitVars, storeVars>>

(***************************************************************************)
(* Stored reply graphs the walk is run on.                                 *)
(***************************************************************************)
\* referenced_tweets lists of a post of a free-form graph over 1..n
RefChoices(n) ==
    {<<>>}
      \cup {<<Ref("replied_to", j)>> : j \in 1 .. (n + 1)}
      \cup {<<Ref("quoted", 1), Ref("replied_to", 2)>>}

FreeGraphs ==
    {[i \in Ids |->
        IF i <= NumWalkIds /\ present[i] THEN TweetDoc(i, refs[i]) ELSE NoDoc] :
        present \in [1 .. NumWalkIds -> BOOLEAN],
        refs \in [1 .. NumWalkIds -> RefChoices(NumWalkIds)]}

\* post i replies to post i + 1; the oldest post n ends the chain with `last`
ChainGraph(n, last) ==
    [i \in Ids |->
        IF i > n THEN NoDoc
        ELSE IF i < n THEN TweetDoc(i, <<Ref("replied_to", i + 1)>>)
        ELSE TweetDoc(i, last)]

ChainGraphs ==
    {ChainGraph(n, last) :
        n \in 1 .. MaxChain,
        last \in {<<>>, <<Ref("replied_to", 1)>>, <<Ref("replied_to", MaxChain + 1)>>}}

InitWalk ==
    /\ tweetsCollection \in FreeGraphs \cup ChainGraphs
    /\ conversationMaxTweets \in 1 .. MaxKept
    /\ startId \in 1 .. (NumWalkIds + 1)
    /\ currentTweetId = NoId
    /\ tweets = <<>>
    /\ visited = {}
    /\ lookups = 0
    /\ walkThrew = FALSE
    /\ wpc = "idle"
    /\ conversation = <<>>
    /\ JobsAtRest
    /\ UnitsAtRest

NextWalk ==
    \/ WalkCall
    \/ WalkStep
    \/ WalkNotFound
    \/ WalkThrow
    \/ WalkReturn

SpecWalk == InitWalk /\ [][NextWalk]_vars

(***************************************************************************)
(* The walk of getTweetResponseContext (llm_response_context.mjs:313-345), *)
(* on the same stored reply graphs.                                        *)
(***************************************************************************)
\* the walk is followed while its list is no longer than the longest chain
\* of the stored graphs plus one
LegacyFollowed == Len(tweets) <= MaxChain + 1

\* currentTweet.referenced_tweets && currentTweet.referenced_tweets.length > 0
LegacyLoopGuard(currentTweet) == currentTweet.referenced_tweets # <<>>

\* the call: findOne of the post itself; return when it is not stored,
\* else conversation = [tweet]
LegacyWalkCall ==
    /\ wpc = "idle"
    /\ lookups' = lookups + 1
    /\ IF FindOne(tweetsCollection, startId) = NoDoc
       THEN /\ wpc' = "done"
            /\ UNCHANGED <<tweets, currentTweetId>>
       ELSE /\ wpc' = "loop"
            /\ tweets' = <<FindOne(tweetsCollection, startId)>>
            /\ currentTweetId' = startId
    /\ UNCHANGED <<unitVars, tweetsCollection, conversationMaxTweets, startId, visited,
                   walkThrew, conversation, storeVars, jobVars>>

\* one iteration: findOne of the first reference of the current post;
\* unshift when it is stored, break when it is not
LegacyWalkStep ==
    /\ wpc = "loop"
    /\ LegacyFollowed
    /\ LegacyLoopGuard(FindOne(tweetsCollection, currentTweetId))
    /\ LET referencedTweetId ==
               FindOne(tweetsCollection, currentTweetId).referenced_tweets[1].id
           currentTweet == FindOne(tweetsCollection, referencedTweetId)
       IN  /\ lookups' = lookups + 1
           /\ IF currentTweet # NoDoc
              THEN /\ tweets' = <<currentTweet>> \o tweets
                   /\ currentTweetId' = referencedTweetId
                   /\ UNCHANGED <<wpc, conversation>>
              ELSE /\ conversation' = V1trimConversation(tweets)
                   /\ wpc' = "done"
                   /\ UNCHANGED <<tweets, currentTweetId>>
    /\ UNCHANGED <<unitVars, tweetsCollection, conversationMaxTweets, startId, visited,
                   walkThrew, storeVars, jobVars>>

\* the loop condition is false: the conversation is trimmed
LegacyWalkReturn ==
    /\ wpc = "loop"
    /\ ~LegacyLoopGuard(FindOne(tweetsCollection, currentTweetId))
    /\ conversation' = V1trimConversation(tweets)
    /\ wpc' = "done"
    /\ UNCHANGED <<unitVars, tweetsCollection, conversationMaxTweets, startId,
                   currentTweetId, tweets, visited, lookups, walkThrew, storeVars,
                   jobVars>>

\* a findOne of the loop rejects: nothing catches it in the function
LegacyWalkThrow ==
    /\ wpc = "loop"
    /\ LegacyFollowed
    /\ LegacyLoopGuard(FindOne(tweetsCollection, currentTweetId))
    /\ lookups' = lookups + 1
    /\ walkThrew' = TRUE
    /\ wpc' = "done"
    /\ UNCHANGED <<unitVars, tweetsCollection, conversationMaxTweets, startId,
                   currentTweetId, tweets, visited, conversation, storeVars, jobVars>>

InitLegacyWalk ==
    /\ InitWalk
    /\ conversationMaxTweets = DefaultConversationMaxTweets

NextLegacyWalk ==
    \/ LegacyWalkCall
    \/ LegacyWalkStep
    \/ LegacyWalkReturn
    \/ LegacyWalkThrow

SpecLegacyWalk == InitLegacyWalk /\ [][NextLegacyWalk]_vars

(***************************************************************************)
(* The jobs and the scraper against an initially empty store.              *)
(***************************************************************************)
Init ==
    /\ tweetsCollection = [p \in PostIds |-> NoDoc]
    /\ conversationMaxTweets = DefaultConversationMaxTweets
    /\ startId = NoId
    /\ currentTweetId = NoId
    /\ tweets = <<>>
    /\ visited = {}
    /\ lookups = 0
    /\ walkThrew = FALSE
    /\ wpc = "idle"
    /\ conversation = <<>>
    /\ JobsAtRest
    /\ UnitsAtRest

\* the steps of the run j of the v1 job
V1_Step(j) ==
    \/ Trigger(j)
    \/ Connect(j)
    \/ ConnectFails(j)
    \/ V1_Select(j)
    \/ V1_SelectFails(j)
    \/ LoopDone(j)
    \/ V1_TakeTweet(j)
    \/ V1_SkipTweet(j)
    \/ V1_Gather(j)
    \/ V1_BuildThrows(j)
    \/ V1_Mark(j)
    \/ V1_Format(j)
    \/ UpsertFind(j)
    \/ UpsertWrite(j)
    \/ UpsertThrows(j)
    \/ Close(j)
    \/ Kill(j)

\* the steps of the v2 job
V2_Step ==
    \/ Trigger("v2")
    \/ V2_TriggerAgain
    \/ Connect("v2")
    \/ ConnectFails("v2")
    \/ V2_Prepare
    \/ V2_Select
    \/ LoopDone("v2")
    \/ V2_TakeTweet
    \/ V2_Gather
    \/ V2_Mark
    \/ V2_MarkThrows
    \/ V2_Format
    \/ UpsertFind("v2")
    \/ UpsertWrite("v2")
    \/ UpsertThrows("v2")
    \/ Close("v2")
    \/ CloseThrows("v2")
    \/ Kill("v2")

\* part_002 and the scraper
Next ==
    \/ \E p \in PostIds : addTweetToMongoDB(p)
    \/ V2_Step

Spec == Init /\ [][Next]_vars

\* llm_response_context.mjs, its runs overlapping, and the scraper
NextOverlap ==
    \/ \E p \in PostIds : addTweetToMongoDB(p)
    \/ \E j \in V1Jobs : V1_Step(j)

SpecOverlap == Init /\ [][NextOverlap]_vars

\* a step in which the run is killed or a store call it does not catch
\* inside a gathering step rejects
V2_Failure ==
    \/ Kill("v2")
    \/ ConnectFails("v2")
    \/ V2_MarkThrows
    \/ UpsertThrows("v2")
    \/ CloseThrows("v2")
    \/ V2_Select /\ run'["v2"].queue # getPrioritizedTweets(tweetsCollection, tweetFetch)

\* part_002 under its scheduler: the cron tick keeps coming, a run that can
\* take its next step takes it, and kills and failures stop at some point
FairSpec ==
    /\ Init /\ [][Next]_vars
    /\ WF_vars(Trigger("v2"))
    /\ WF_vars(Connect("v2"))
    /\ WF_vars(V2_Prepare)
    /\ WF_vars(V2_Select)
    /\ WF_vars(LoopDone("v2"))
    /\ WF_vars(V2_TakeTweet)
    /\ WF_vars(V2_Gather)
    /\ WF_vars(V2_Mark)
    /\ WF_vars(V2_Format)
    /\ WF_vars(UpsertFind("v2"))
    /\ WF_vars(UpsertWrite("v2"))
    /\ WF_vars(Close("v2"))
    /\ <>[][~V2_Failure]_vars

(***************************************************************************)
(* AdaptiveRateLimiter (part_009:299-348) under the fetch cycles that      *)
(* share rateLimiters.xCacheAPI. Time is counted in intervals of one       *)
(* token (perMilliseconds / maxRequests); backoffMultiplier stays at 1.    *)
(***************************************************************************)
\* refillTokens(): the bucket and lastRefill after it, called at time t
refillTokens(tok, last, t) ==
    LET tokensToAdd == t - last
    IN  IF tokensToAdd > 0
        THEN [tokens |-> Min(tok + tokensToAdd, MaxRequests), lastRefill |-> t]
        ELSE [tokens |-> tok, lastRefill |-> last]

\* Math.min((count - this.tokens) * (perMilliseconds / maxRequests) *
\* backoffMultiplier, MAX_RETRY_DELAY) for count = 1; it is never below
\* minInterval, a fifth of an interval
WaitTime(tok) == Min(1 - tok, MaxRetryDelay)

LimiterUnchanged ==
    UNCHANGED <<tweetsCollection, walkVars, storeVars, jobVars, rankVars, visionVars,
                authorVars, pipeVars>>

\* removeTokens(): await this.refillTokens(), which runs to its end at the call
Limiter_Call(c) ==
    /\ removing[c].pc = "idle"
    /\ tokens' = refillTokens(tokens, lastRefill, dateNow).tokens
    /\ lastRefill' = refillTokens(tokens, lastRefill, dateNow).lastRefill
    /\ removing' = [removing EXCEPT ![c].pc = "check"]
    /\ UNCHANGED dateNow
    /\ LimiterUnchanged

\* after the await: take a token when there is one, else await delay(...)
Limiter_Check(c) ==
    /\ removing[c].pc = "check"
    /\ IF tokens >= 1
       THEN /\ tokens' = tokens - 1
            /\ removing' = [removing EXCEPT ![c].pc = "idle"]
       ELSE /\ removing' = [removing EXCEPT ![c] =
                                [pc |-> "wait", wakeAt |-> dateNow + WaitTime(tokens)]]
            /\ UNCHANGED tokens
    /\ UNCHANGED <<lastRefill, dateNow>>
    /\ LimiterUnchanged

\* the delay is over: await this.refillTokens()
Limiter_Wake(c) ==
    /\ removing[c].pc = "wait"
    /\ dateNow >= removing[c].wakeAt
    /\ tokens' = refillTokens(tokens, lastRefill, dateNow).tokens
    /\ lastRefill' = refillTokens(tokens, lastRefill, dateNow).lastRefill
    /\ removing' = [removing EXCEPT ![c].pc = "take"]
    /\ UNCHANGED dateNow
    /\ LimiterUnchanged

\* after the await: this.tokens -= count; return true
Limiter_Take(c) ==
    /\ removing[c].pc = "take"
    /\ tokens' = tokens - 1
    /\ removing' = [removing EXCEPT ![c] = [pc |-> "idle", wakeAt |-> 0]]
    /\ UNCHANGED <<lastRefill, dateNow>>
    /\ LimiterUnchanged

\* the time of one token passes
Limiter_Tick ==
    /\ dateNow < MaxNow
    /\ dateNow' = dateNow + 1
    /\ UNCHANGED <<tokens, lastRefill, removing>>
    /\ LimiterUnchanged

(***************************************************************************)
(* The response generator (generate_responses.mjs:246-388) and the         *)
(* publisher (xresponder.mjs:64-116) on the records the jobs store.        *)
(***************************************************************************)
\* authors.findOne({ username: 'bobthesnek' }): null, or the document of the
\* operating account when it goes by the hardcoded handle
BobDocs == {NoAuthor, [id |-> twitterUserId, username |-> "bobthesnek"]}

\* { author_id: { $ne: bobId }, response: { $exists: false },
\*   processed_by: 'llm_context', processed_at: { $exists: true } };
\* { $ne: null } matches the documents that carry an author_id
PromptFilter(doc, bobAuthor) ==
    /\ IF bobAuthor = NoAuthor THEN doc.author_id # ""
       ELSE doc.author_id # bobAuthor.id
    /\ doc.response = ""
    /\ doc.processed_by = "llm_context"
    /\ doc.processed_at # ""

\* main of the generator: the prompts its find returns
Gen_Find(bobAuthor) ==
    /\ prompts = <<>>
    /\ prompts' = SelectSeq(responsesCollection, LAMBDA doc : PromptFilter(doc, bobAuthor))
    /\ UNCHANGED <<tweetsCollection, walkVars, storeVars, jobVars, rankVars, visionVars,
                   authorVars, legacyTweet, unposted, following, limiterVars, REPLY_TO_UNFOLLOWED, published>>

\* { $set: { response, response_generated_at } }
SetResponse(doc) == [doc EXCEPT !.response = "reply", !.response_generated_at = "date"]

\* one prompt of the loop: its author is the record's or the post's, the two
\* model calls resolve, and updateOne({ tweet_id }) writes the response
Gen_Answer ==
    /\ prompts # <<>>
    /\ LET promptDoc == Head(prompts)
           k == FindResponse(responsesCollection, promptDoc.tweet_id)
       IN  /\ promptDoc.author_id # "" \/ tweetsCollection[promptDoc.tweet_id] # NoDoc
           /\ responsesCollection' =
                 IF k = 0 THEN responsesCollection
                 ELSE [responsesCollection EXCEPT ![k] = SetResponse(@)]
    /\ prompts' = Tail(prompts)
    /\ UNCHANGED <<tweetsCollection, walkVars, responsesUnique, imageVisions, jobVars,
                   rankVars, visionVars, authorVars, legacyTweet, unposted, following, limiterVars,
                   REPLY_TO_UNFOLLOWED, published>>

\* one prompt of the loop is given up (continue): no author id, a model call
\* or the author update rejects, no text comes back, or the write rejects
Gen_Skip ==
    /\ prompts # <<>>
    /\ prompts' = Tail(prompts)
    /\ UNCHANGED <<tweetsCollection, walkVars, storeVars, jobVars, rankVars, visionVars,
                   authorVars, legacyTweet, unposted, following, limiterVars, REPLY_TO_UNFOLLOWED, published>>

\* a lookup of the loop rejects: main rethrows and loop() starts it again
Gen_Throws ==
    /\ prompts # <<>>
    /\ prompts' = <<>>
    /\ UNCHANGED <<tweetsCollection, walkVars, storeVars, jobVars, rankVars, visionVars,
                   authorVars, legacyTweet, unposted, following, limiterVars, REPLY_TO_UNFOLLOWED, published>>

\* find({ response: { $exists: true }, posted: { $exists: false } })
Unposted(doc) == doc.response # "" /\ doc.posted = ""

\* postGeneratedResponses: the _id of the responses its find returns
Post_Find ==
    /\ unposted = <<>>
    /\ unposted' = SelectSeq([k \in DOMAIN responsesCollection |-> k],
                             LAMBDA k : Unposted(responsesCollection[k]))
    /\ UNCHANGED <<tweetsCollection, walkVars, storeVars, jobVars, rankVars, visionVars,
                   authorVars, legacyTweet, prompts, following, limiterVars, REPLY_TO_UNFOLLOWED, published>>

\* tweet ? followingIds.includes(tweet.author_id) : false
isFollowing(tweet) == IF tweet = NoDoc THEN FALSE ELSE tweet.author_id \in following

\* the value postX returns: the id of the last chunk it posted, or null when
\* it gave up on or skipped every chunk
postX(postOk) == IF postOk THEN "reply id" ELSE "null"

\* the policy lets the response of this post through
MayReply(tweet) == REPLY_TO_UNFOLLOWED \/ isFollowing(tweet)

\* the count of published replies after postX has run for post t
Publish(t, postOk) ==
    IF postOk THEN [published EXCEPT ![t] = @ + 1] ELSE published

\* one response of the loop: the lookup of its post (lookupOk), the policy,
\* postX (postOk: it posted a chunk), which catches the failures of its
\* posts itself, so that retryOperation returns at its first attempt, and
\* the write of posted (writeOk); the catch records a failure
Post_Handle(lookupOk, postOk, writeOk) ==
    /\ unposted # <<>>
    /\ LET k == Head(unposted)
           response == responsesCollection[k]
           tweet == tweetsCollection[response.tweet_id]
       IN  IF ~lookupOk
           THEN /\ responsesCollection' =
                      [responsesCollection EXCEPT ![k].posted = "false",
                                                  ![k].error = "message"]
                /\ UNCHANGED published
           ELSE IF ~MayReply(tweet)
           THEN UNCHANGED <<responsesCollection, published>>
           ELSE /\ postOk => published[response.tweet_id] < MaxPublished
                /\ published' = Publish(response.tweet_id, postOk)
                /\ responsesCollection' =
                      IF writeOk
                      THEN [responsesCollection EXCEPT ![k].posted = "true",
                                                       ![k].response_id = postX(postOk)]
                      ELSE [responsesCollection EXCEPT ![k].posted = "false",
                                                       ![k].error = "message"]
    /\ unposted' = Tail(unposted)
    /\ UNCHANGED <<tweetsCollection, walkVars, responsesUnique, imageVisions, jobVars,
                   rankVars, visionVars, authorVars, legacyTweet, prompts, following, limiterVars,
                   REPLY_TO_UNFOLLOWED>>

\* the call ends inside the handling of a response and writes nothing: the
\* update of the catch rejects and the outer catch ends the call, or the
\* process stops; postX may have run before (ran) and posted (postOk)
Post_Throws(ran, postOk) ==
    /\ unposted # <<>>
    /\ LET response == responsesCollection[Head(unposted)]
           tweet == tweetsCollection[response.tweet_id]
       IN  /\ ran => MayReply(tweet)
           /\ (ran /\ postOk) => published[response.tweet_id] < MaxPublished
           /\ published' = Publish(response.tweet_id, ran /\ postOk)
    /\ unposted' = <<>>
    /\ UNCHANGED <<tweetsCollection, walkVars, storeVars, jobVars, rankVars, visionVars,
                   authorVars, legacyTweet, prompts, following, limiterVars, REPLY_TO_UNFOLLOWED>>

\* DELETE /api/tweets/:tweetId/response: 404 without a record, 403 when the
\* record is posted === true, else $unset of response and
\* response_generated_at; the posts carry no response.* fields to unset
Api_DeleteResponse(tweetId) ==
    /\ LET k == FindResponse(responsesCollection, tweetId)
       IN  responsesCollection' =
              IF k = 0 THEN responsesCollection
              ELSE IF responsesCollection[k].posted = "true" THEN responsesCollection
              ELSE [responsesCollection EXCEPT ![k].response = "",
                                               ![k].response_generated_at = ""]
    /\ UNCHANGED <<tweetsCollection, walkVars, responsesUnique, imageVisions, jobVars,
                   rankVars, visionVars, authorVars, pipeVars, limiterVars>>

\* the $set of the legacy upsert applied to a document
LegacySetFields(doc, tweet) ==
    [doc EXCEPT !.tweet_id = tweet.id, !.author_id = tweet.author_id, !.prompt = LegacyPrompt]

\* main of llm_response_context.mjs:552-671 reaches post p in one of its two
\* loops, after its createIndex; it goes on when the post has no record
Legacy_Check(p) ==
    /\ legacyTweet = NoId
    /\ tweetsCollection[p] # NoDoc
    /\ IF tweetsCollection[p] = NoDoc THEN FALSE
       ELSE /\ tweetsCollection[p].author_id # twitterUserId
            /\ IsMention(tweetsCollection[p]) \/ IsReply(tweetsCollection[p])
    /\ FindResponse(responsesCollection, p) = 0
    /\ legacyTweet' = p
    /\ responsesUnique' = (responsesUnique \/ CreateIndex(responsesCollection))
    /\ UNCHANGED <<tweetsCollection, walkVars, responsesCollection, imageVisions, jobVars,
                   rankVars, visionVars, authorVars, prompts, unposted, following, limiterVars,
                   REPLY_TO_UNFOLLOWED, published>>

\* updateOne({ tweet_id }, { $set: { tweet_id, author_id, prompt } }, { upsert: true })
Legacy_Upsert ==
    /\ legacyTweet # NoId
    /\ LET k == FindResponse(responsesCollection, legacyTweet)
           tweet == tweetsCollection[legacyTweet]
       IN  responsesCollection' =
              IF k # 0
              THEN [responsesCollection EXCEPT ![k] = LegacySetFields(@, tweet)]
              ELSE Append(responsesCollection,
                          LegacySetFields(NewResponse(legacyTweet, FALSE), tweet))
    /\ legacyTweet' = NoId
    /\ UNCHANGED <<tweetsCollection, walkVars, responsesUnique, imageVisions, jobVars,
                   rankVars, visionVars, authorVars, prompts, unposted, following, limiterVars,
                   REPLY_TO_UNFOLLOWED, published>>

\* no context comes back, or a call rejects and the process exits
Legacy_GiveUp ==
    /\ legacyTweet # NoId
    /\ legacyTweet' = NoId
    /\ UNCHANGED <<tweetsCollection, walkVars, storeVars, jobVars, rankVars, visionVars,
                   authorVars, prompts, unposted, following, limiterVars, REPLY_TO_UNFOLLOWED,
                   published>>

\* post 2 is stored; the jobs, the generator and the publisher have not run
InitPublish ==
    /\ tweetsCollection =
          [p \in PostIds |-> IF p = 2 THEN SetTweetFields(NoDoc, ApiTweets[p]) ELSE NoDoc]
    /\ conversationMaxTweets = DefaultConversationMaxTweets
    /\ startId = NoId
    /\ currentTweetId = NoId
    /\ tweets = <<>>
    /\ visited = {}
    /\ lookups = 0
    /\ walkThrew = FALSE
    /\ wpc = "idle"
    /\ conversation = <<>>
    /\ JobsAtRest
    /\ tweetFetch = TweetFetchLimit
    /\ selected = <<>>
    /\ lastOp = "none"
    /\ imageConcurrency = DefaultImageConcurrency
    /\ mediaUrls = <<>>
    /\ tasks = <<>>
    /\ descriptions = <<>>
    /\ apiCalls = [u \in Urls |-> 0]
    /\ clock = 0
    /\ calls = <<>>
    /\ authorsCollection = <<>>
    /\ alwaysReplyToUsernames = {}
    /\ frequentAuthorIds = {}
    /\ classification = <<>>
    /\ prioritizedAuthors = <<>>
    /\ legacyTweet = NoId
    /\ prompts = <<>>
    /\ unposted = <<>>
    /\ following \in {{}, {"alice"}}
    /\ REPLY_TO_UNFOLLOWED \in BOOLEAN
    /\ published = [p \in PostIds |-> 0]
    /\ LimiterAtRest

\* ... the author of the post is followed, and replies go to followed authors
InitPipeline ==
    /\ InitPublish
    /\ following = {"alice"}
    /\ REPLY_TO_UNFOLLOWED = FALSE

Gen_Step ==
    \/ \E bobAuthor \in BobDocs : Gen_Find(bobAuthor)
    \/ Gen_Answer
    \/ Gen_Skip
    \/ Gen_Throws

Post_Step ==
    \/ Post_Find
    \/ \E lookupOk, postOk, writeOk \in BOOLEAN : Post_Handle(lookupOk, postOk, writeOk)
    \/ \E ran, postOk \in BOOLEAN : Post_Throws(ran, postOk)

\* the steps of a call of the publisher whose lookups, posts and writes resolve
Post_Run ==
    \/ Post_Find
    \/ Post_Handle(TRUE, TRUE, TRUE)

Legacy_Step ==
    \/ \E p \in PostIds : Legacy_Check(p)
    \/ Legacy_Upsert
    \/ Legacy_GiveUp

\* the steps of a run of the v1 job that meets no failure
V1_Run(j) ==
    \/ Trigger(j)
    \/ Connect(j)
    \/ V1_Select(j)
    \/ LoopDone(j)
    \/ V1_TakeTweet(j)
    \/ V1_Gather(j)
    \/ V1_Mark(j)
    \/ V1_Format(j)
    \/ UpsertFind(j)
    \/ UpsertWrite(j)
    \/ Close(j)

\* the steps of a run of the v2 job that is not killed, whose connect,
\* marker write and upsert resolve, and during which main is not called again
V2_Run ==
    \/ Trigger("v2")
    \/ Connect("v2")
    \/ V2_Prepare
    \/ V2_Select
    \/ LoopDone("v2")
    \/ V2_TakeTweet
    \/ V2_Gather
    \/ V2_Mark
    \/ V2_Format
    \/ UpsertFind("v2")
    \/ UpsertWrite("v2")
    \/ Close("v2")

\* the three context builders, the generator and the publisher on one store
NextPipeline ==
    \/ V1_Run("v1a")
    \/ V2_Run
    \/ Legacy_Step
    \/ Gen_Step
    \/ Post_Run

SpecPipeline == InitPipeline /\ [][NextPipeline]_vars

\* the v1 job, the generator, the publisher under either policy, and the
\* dashboard's delete
NextPublish ==
    \/ V1_Step("v1a")
    \/ Gen_Step
    \/ Post_Step
    \/ \E p \in PostIds : Api_DeleteResponse(p)

SpecPublish == InitPublish /\ [][NextPublish]_vars

\* the v1 job, the v2 job and the generator
NextGen ==
    \/ V1_Run("v1a")
    \/ V2_Run
    \/ Gen_Step

\* the v1 job, the v2 job and the generator, failures included
NextDigest ==
    \/ V1_Step("v1a")
    \/ V2_Step
    \/ Gen_Step

SpecDigest == InitPipeline /\ [][NextDigest]_vars

\* the mentions cycle and the conversation cycle of part_009 on one limiter
NextLimiter ==
    \/ \E c \in Cycles : Limiter_Call(c)
    \/ \E c \in Cycles : Limiter_Check(c)
    \/ \E c \in Cycles : Limiter_Wake(c)
    \/ \E c \in Cycles : Limiter_Take(c)
    \/ Limiter_Tick

SpecLimiter == Init /\ [][NextLimiter]_vars

\* a step in which the generator gives a prompt up or its main throws
Gen_Failure == Gen_Skip \/ Gen_Throws

\* the jobs under their schedulers and the generator under its loop, whose
\* collaborators and store calls fail finitely often
FairGen ==
    /\ InitPipeline /\ [][NextGen]_vars
    /\ WF_vars(V2_Run)
    /\ WF_vars(V1_Run("v1a"))
    /\ \A bobAuthor \in BobDocs : WF_vars(Gen_Find(bobAuthor))
    /\ WF_vars(Gen_Answer)
    /\ <>[][~Gen_Failure]_vars


(***************************************************************************)
(* TweetService of part_002 on its own: scoring, enrichment and selection  *)
(* over stores of posts with drawn texts and counters (SpecRank).          *)
(***************************************************************************)
RankIds == 1 .. NumRankPosts

\* text and in_reply_to_user_id of a post: a mention that replies to the
\* operating account, a plain reply to it, a keyword post
RankKinds ==
    {[text |-> "@bot nice", in_reply_to_user_id |-> twitterUserId],
     [text |-> PlainText, in_reply_to_user_id |-> twitterUserId],
     [text |-> "gm #AI", in_reply_to_user_id |-> ""]}

\* public_metrics as the platform API delivers it, or not at all
ApiMetrics ==
    {NoMetrics,
     [like_count |-> 10, retweet_count |-> 4, reply_count |-> 2],
     [like_count |-> 1, retweet_count |-> 0, reply_count |-> 0]}

RankTweet(p, kind, metrics) ==
    [type |-> "tweet", id |-> p, author_id |-> "alice", text |-> kind.text,
     in_reply_to_user_id |-> kind.in_reply_to_user_id,
     referenced_tweets |-> <<>>, mediaData |-> <<>>, created_at |-> p + 1,
     public_metrics |-> metrics]

\* a document with the flat counters { 'like_count': { $exists: true } } looks
\* for: no public_metrics, no reply_count
FlatDoc(p, kind) ==
    SetTweetFields(NoDoc, RankTweet(p, kind, NoMetrics))
        @@ [like_count |-> 3, retweet_count |-> 1]

\* a document that carries a flat reply_count and no other counter
ReplyOnlyDoc(p) ==
    SetTweetFields(NoDoc, RankTweet(p, [text |-> "gm #AI", in_reply_to_user_id |-> ""],
                                    NoMetrics))
        @@ [reply_count |-> 2]

HasFlatCounters(doc) ==
    \E c \in {"like_count", "retweet_count", "reply_count"} : c \in DOMAIN doc

WalkAtRest ==
    /\ conversationMaxTweets = DefaultConversationMaxTweets
    /\ startId = NoId
    /\ currentTweetId = NoId
    /\ tweets = <<>>
    /\ visited = {}
    /\ lookups = 0
    /\ walkThrew = FALSE
    /\ wpc = "idle"
    /\ conversation = <<>>

\* the values of config.limits.tweetFetch the ranking is run under: the
\* default, which no query of the modelled collection exceeds, and a limit
\* that cuts a query with two matches
FetchLimits == {1, TweetFetchLimit}

InitRank ==
    /\ tweetsCollection \in
          {[p \in RankIds |->
                IF flat[p] = NoDoc THEN NoDoc
                ELSE IF flat[p] = [only |-> "reply_count"] THEN ReplyOnlyDoc(p)
                ELSE FlatDoc(p, flat[p])] :
              flat \in [RankIds -> {NoDoc, [only |-> "reply_count"]} \cup RankKinds]}
    /\ WalkAtRest
    /\ JobsAtRest
    /\ tweetFetch \in FetchLimits
    /\ UnitsIdle

\* the scraper stores or refreshes post p: the text of a stored post stays,
\* its counters are the current ones
RankIngest(p, kind, metrics) ==
    /\ IF tweetsCollection[p] = NoDoc THEN TRUE
       ELSE /\ ~HasFlatCounters(tweetsCollection[p])
            /\ tweetsCollection[p].text = kind.text
    /\ tweetsCollection' =
          [tweetsCollection EXCEPT
              ![p] = SetTweetFields(tweetsCollection[p], RankTweet(p, kind, metrics))]
    /\ selected' = <<>>
    /\ lastOp' = "ingest"
    /\ UNCHANGED <<walkVars, storeVars, jobVars, visionVars, authorVars, pipeVars, limiterVars, tweetFetch>>

\* enrichTweetsWithEngagement: bulkWrite({ ordered: false }) applies the
\* updates in `written`; a rejected find or bulkWrite is caught and logged
enrichTweetsWithEngagement(written) ==
    /\ tweetsCollection' =
          [p \in RankIds |->
              IF p \in written THEN Enriched(tweetsCollection)[p] ELSE tweetsCollection[p]]
    /\ selected' = <<>>
    /\ lastOp' = "enrich"
    /\ UNCHANGED <<walkVars, storeVars, jobVars, visionVars, authorVars, pipeVars, limiterVars, tweetFetch>>

\* getPrioritizedTweets: [] when a query rejects
RankSelect(ok) ==
    /\ selected' = IF ok THEN getPrioritizedTweets(tweetsCollection, tweetFetch) ELSE <<>>
    /\ lastOp' = IF ok THEN "select" ELSE "selectThrew"
    /\ UNCHANGED <<tweetsCollection, walkVars, storeVars, jobVars, visionVars, authorVars, pipeVars, limiterVars,
                   tweetFetch>>

NextRank ==
    \/ \E p \in RankIds, kind \in RankKinds, metrics \in ApiMetrics :
          RankIngest(p, kind, metrics)
    \/ \E written \in SUBSET RankIds : enrichTweetsWithEngagement(written)
    \/ \E ok \in BOOLEAN : RankSelect(ok)

SpecRank == InitRank /\ [][NextRank]_vars

(***************************************************************************)
(* ResponseContextBuilder._processImagesWithConcurrency of part_002, its   *)
(* tasks interleaved (SpecVision).  A task is "queued" in the limiter      *)
(* until a slot is free, then awaits findOne ("find"), then describeImage  *)
(* and updateOne ("describe"), and is "done" with its result.              *)
(***************************************************************************)
UrlLists == UNION {[1 .. n -> Urls] : n \in 1 .. MaxUrls}

NewTask(url) == [pc |-> "queued", url |-> url, result |-> NoDesc]

InFlight(task) == task.pc \in {"find", "describe"}

\* activeCount of the limiter
ActiveCount(ts) == Cardinality({k \in DOMAIN ts : InFlight(ts[k])})

\* pLimit(concurrency): a queued function starts while activeCount < concurrency
SlotFreeAlways(active, limit) == TRUE
SlotFree(active, limit) == active < limit

\* if (cached?.description)
CacheHitNever(cached) == FALSE
CacheHit(cached) == cached # NoDesc

\* descriptions.filter(Boolean), and the same dropping the fallback text
FilterFallback(results) == SelectSeq(results, LAMBDA d : d # Unavailable)
FilterBoolean(results) == SelectSeq(results, LAMBDA d : d # NoDesc)

\* the limiter runs the oldest queued functions while it has a free slot:
\* when handed a function, and whenever a running one has settled
RECURSIVE StartQueued(_, _)
StartQueued(ts, limit) ==
    LET queued == {k \in DOMAIN ts : ts[k].pc = "queued"}
    IN  IF queued # {} /\ SlotFree(ActiveCount(ts), limit)
        THEN LET k == CHOOSE i \in queued : \A j \in queued : i <= j
             IN  StartQueued([ts EXCEPT ![k].pc = "find"], limit)
        ELSE ts

Finish(k, result) ==
    tasks' = StartQueued([tasks EXCEPT ![k].pc = "done", ![k].result = result],
                         imageConcurrency)

InitVision ==
    /\ tweetsCollection = [p \in PostIds |-> NoDoc]
    /\ WalkAtRest
    /\ JobsAtRest
    /\ selected = <<>>
    /\ lastOp = "none"
    /\ tweetFetch = TweetFetchLimit
    /\ imageConcurrency \in 1 .. MaxUrls
    /\ mediaUrls = <<>>
    /\ tasks = <<>>
    /\ descriptions = <<>>
    /\ apiCalls = [u \in Urls |-> 0]
    /\ clock = 0
    /\ calls = <<>>
    /\ authorsCollection = <<>>
    /\ alwaysReplyToUsernames = {}
    /\ frequentAuthorIds = {}
    /\ classification = <<>>
    /\ prioritizedAuthors = <<>>
    /\ PipeAtRest
    /\ LimiterAtRest

\* _getVisionContext calls _processImagesWithConcurrency(mediaUrls): urls.map
\* hands one function per url to the limiter
Describe(list) ==
    /\ tasks = <<>>
    /\ mediaUrls' = list
    /\ tasks' = StartQueued([k \in DOMAIN list |-> NewTask(list[k])], imageConcurrency)
    /\ apiCalls' = [u \in Urls |-> 0]
    /\ UNCHANGED <<tweetsCollection, walkVars, storeVars, jobVars, rankVars, authorVars, pipeVars, limiterVars,
                   imageConcurrency, descriptions, clock, calls>>

\* findOne({ url }) resolves: a hit returns the cached description, a miss
\* calls describeImage(url)
TaskFind(k) ==
    /\ k \in DOMAIN tasks
    /\ tasks[k].pc = "find"
    /\ LET url == tasks[k].url
           cached == imageVisions[url]
       IN  IF CacheHit(cached)
           THEN /\ Finish(k, cached.description)
                /\ UNCHANGED apiCalls
           ELSE /\ tasks' = [tasks EXCEPT ![k].pc = "describe"]
                /\ apiCalls' = [apiCalls EXCEPT ![url] = @ + 1]
    /\ UNCHANGED <<tweetsCollection, walkVars, storeVars, jobVars, rankVars, authorVars, pipeVars, limiterVars,
                   imageConcurrency, mediaUrls, descriptions, clock, calls>>

\* findOne rejects: the catch returns the fallback text
TaskFindThrows(k) ==
    /\ k \in DOMAIN tasks
    /\ tasks[k].pc = "find"
    /\ Finish(k, Unavailable)
    /\ UNCHANGED <<tweetsCollection, walkVars, storeVars, jobVars, rankVars, authorVars, pipeVars, limiterVars,
                   imageConcurrency, mediaUrls, descriptions, apiCalls, clock, calls>>

\* describeImage resolves and updateOne({ url }, { $set: { url, description,
\* created_at: new Date() } }, { upsert: true }) is applied
TaskStore(k) ==
    /\ k \in DOMAIN tasks
    /\ tasks[k].pc = "describe"
    /\ LET url == tasks[k].url
       IN  /\ imageVisions' =
                 [imageVisions EXCEPT ![url] = VisionEntry(url, Desc(url), clock)]
           /\ Finish(k, Desc(url))
    /\ clock' = clock + 1
    /\ UNCHANGED <<tweetsCollection, walkVars, responsesCollection, responsesUnique,
                   jobVars, rankVars, authorVars, pipeVars, limiterVars,
                   imageConcurrency, mediaUrls, descriptions, apiCalls, calls>>

\* describeImage rejects, or it resolves and updateOne rejects: the catch
\* returns the fallback text, the cache is as before
TaskThrows(k) ==
    /\ k \in DOMAIN tasks
    /\ tasks[k].pc = "describe"
    /\ Finish(k, Unavailable)
    /\ UNCHANGED <<tweetsCollection, walkVars, storeVars, jobVars, rankVars, authorVars, pipeVars, limiterVars,
                   imageConcurrency, mediaUrls, descriptions, apiCalls, clock, calls>>

\* Promise.all resolves; return descriptions.filter(Boolean)
DescribeReturn ==
    /\ tasks # <<>>
    /\ \A k \in DOMAIN tasks : tasks[k].pc = "done"
    /\ descriptions' = FilterBoolean([k \in DOMAIN tasks |-> tasks[k].result])
    /\ calls' = <<[urls |-> mediaUrls, api |-> apiCalls]>>
    /\ tasks' = <<>>
    /\ mediaUrls' = <<>>
    /\ UNCHANGED <<tweetsCollection, walkVars, storeVars, jobVars, rankVars, authorVars, pipeVars, limiterVars,
                   imageConcurrency, apiCalls, clock>>

NextVision ==
    \/ \E list \in UrlLists : Describe(list)
    \/ \E k \in 1 .. MaxUrls : TaskFind(k)
    \/ \E k \in 1 .. MaxUrls : TaskFindThrows(k)
    \/ \E k \in 1 .. MaxUrls : TaskStore(k)
    \/ \E k \in 1 .. MaxUrls : TaskThrows(k)
    \/ DescribeReturn

SpecVision == InitVision /\ [][NextVision]_vars

(***************************************************************************)
(* AuthorService.getTargetAuthorsClassification of part_002 and            *)
(* getTargetAuthors of llm_response_context.mjs over drawn author lists,   *)
(* allow-lists and sets of recently answered authors (SpecAuthors).        *)
(***************************************************************************)
\* the id of an author document that has none (an author first seen as a
\* mention is stored with its username only)
NoAuthorId == "undefined"

\* Alice as the scraper's author update stores a profile (part_009:638-660:
\* the flat counts and the platform's public_metrics), bob as researchAuthor
\* stores one (scraper.mjs:168-177: no counts), Carol as addTweetToMongoDB
\* stores a mentioned username (part_009:79: no id)
StoredAuthors ==
    <<[id |-> "a1", username |-> "Alice", followers_count |-> 10, tweet_count |-> 4,
       public_metrics |-> [followers_count |-> 10, tweet_count |-> 4]],
      [id |-> "a2", username |-> "bob"],
      [id |-> NoAuthorId, username |-> "Carol"]>>

\* username.toLowerCase()
ToLowerCase(username) ==
    CASE username = "Alice" -> "alice"
      [] username = "Carol" -> "carol"
      [] OTHER -> username

\* the lists find().toArray() can return: the stored authors, in order
AuthorLists ==
    {SelectSeq(StoredAuthors, LAMBDA a : a.username \in keep) :
        keep \in SUBSET {"Alice", "bob", "Carol"}}

\* ALWAYS_REPLY_TO.toLowerCase().split(',')
AllowLists == SUBSET {"alice", "bob", "dave"}

\* distinct('author_id', { created_at: { $gte: thirtyDaysAgo } })
RecentAuthorIdSets == SUBSET {"a1", "a2", "a9"}

\* the three branches of the forEach of getTargetAuthorsClassification
InPriority(author, allow, frequent) == ToLowerCase(author.username) \in allow
InFrequentAlso(author, allow, frequent) == author.id \in frequent
InFrequent(author, allow, frequent) ==
    /\ ~InPriority(author, allow, frequent)
    /\ author.id \in frequent
InNew(author, allow, frequent) ==
    /\ ~InPriority(author, allow, frequent)
    /\ author.id \notin frequent

getTargetAuthorsClassification(authors, allow, frequent) ==
    [priority |-> SelectSeq(authors, LAMBDA a : InPriority(a, allow, frequent)),
     frequent |-> SelectSeq(authors, LAMBDA a : InFrequent(a, allow, frequent)),
     new |-> SelectSeq(authors, LAMBDA a : InNew(a, allow, frequent))]

\* return { priority: [], frequent: [], new: [] } of the catch
EmptyClassification == [priority |-> <<>>, frequent |-> <<>>, new |-> <<>>]

\* getTargetAuthors of llm_response_context.mjs: three independent filters
V1getTargetAuthors(authors, allow, frequent) ==
    [priority |-> SelectSeq(authors, LAMBDA a : ToLowerCase(a.username) \in allow),
     frequent |-> SelectSeq(authors, LAMBDA a : a.id \in frequent),
     new |-> SelectSeq(authors, LAMBDA a : a.id \notin frequent)]

\* the response records the jobs have stored: the v2 upsert sets author_id
\* (part_002:657), the v1 upsert does not (llm_response_context.mjs:250-260)
StoredResponses ==
    <<[NewResponse(1, TRUE) EXCEPT !.author_id = "a1",
                                   !.processed_by = "llm_context_builder_v2"],
      [NewResponse(2, TRUE) EXCEPT !.author_id = "a2",
                                   !.processed_by = "llm_context_builder_v2"],
      [NewResponse(3, FALSE) EXCEPT !.processed_by = "llm_context"]>>

ResponseLists ==
    {SelectSeq(StoredResponses, LAMBDA r : r.tweet_id \in keep) : keep \in SUBSET {1, 2, 3}}

\* $ifNull: ['$public_metrics.c', '$c', 0]
AuthorCount(author, c) ==
    IF "public_metrics" \in DOMAIN author /\ c \in DOMAIN author.public_metrics
    THEN author.public_metrics[c]
    ELSE IF c \in DOMAIN author THEN author[c]
    ELSE 0

\* the value $lookup matches on: a field that is missing counts as null
LookupValue(doc, field) ==
    IF field \in DOMAIN doc /\ doc[field] \notin {"", NoAuthorId} THEN doc[field] ELSE "null"

\* $lookup { from: 'responses', localField: 'id', foreignField: 'author_id' }
authorInteractions(author, responses) ==
    {k \in DOMAIN responses :
        LookupValue(responses[k], "author_id") = LookupValue(author, "id")}

\* priorityScore in tenths: followersCountNum * followers
\* + tweetCountNum * tweets + interactionCount * interactions
priorityScore(author, responses) ==
    AuthorCount(author, "followers_count") * AuthorWeightFollowersTenths
      + AuthorCount(author, "tweet_count") * AuthorWeightTweetsTenths
      + Cardinality(authorInteractions(author, responses)) * AuthorWeightInteractionsTenths

\* the $addFields stages: every author with its priorityScore
WithPriorityScore(authors, responses) ==
    [k \in DOMAIN authors |->
        authors[k] @@ [priorityScore |-> priorityScore(authors[k], responses)]]

\* $sort: { priorityScore: -1 }: the orders of the documents in which no
\* score is followed by a greater one (the order of equal scores is not
\* specified)
SortByPriorityScore(docs) ==
    LET n == Len(docs)
        orders == {f \in [1 .. n -> 1 .. n] : \A i, j \in 1 .. n : f[i] = f[j] => i = j}
    IN  {[k \in 1 .. n |-> docs[f[k]]] : f \in
            {g \in orders : \A i, j \in 1 .. n :
                i < j => docs[g[i]].priorityScore >= docs[g[j]].priorityScore}}

InitAuthors ==
    /\ tweetsCollection = [p \in PostIds |-> NoDoc]
    /\ WalkAtRest
    /\ responsesCollection \in ResponseLists
    /\ responsesUnique = FALSE
    /\ imageVisions = [u \in Urls |-> NoDesc]
    /\ isProcessing = FALSE
    /\ run = [j \in Jobs |-> IdleRun]
    /\ selected = <<>>
    /\ lastOp = "none"
    /\ tweetFetch = TweetFetchLimit
    /\ imageConcurrency = DefaultImageConcurrency
    /\ mediaUrls = <<>>
    /\ tasks = <<>>
    /\ descriptions = <<>>
    /\ apiCalls = [u \in Urls |-> 0]
    /\ clock = 0
    /\ calls = <<>>
    /\ authorsCollection \in AuthorLists
    /\ alwaysReplyToUsernames \in AllowLists
    /\ frequentAuthorIds \in RecentAuthorIdSets
    /\ classification = <<>>
    /\ prioritizedAuthors = <<>>
    /\ PipeAtRest
    /\ LimiterAtRest

\* getTargetAuthorsClassification returns; _getFrequentAuthorIds gives the
\* empty set when its query rejects
Classify(frequentOk) ==
    /\ classification' =
          getTargetAuthorsClassification(authorsCollection, alwaysReplyToUsernames,
                                         IF frequentOk THEN frequentAuthorIds ELSE {})
    /\ lastOp' = "classify"
    /\ UNCHANGED <<tweetsCollection, walkVars, storeVars, jobVars, visionVars, selected, tweetFetch, pipeVars, limiterVars,
                   authorsCollection, alwaysReplyToUsernames, frequentAuthorIds,
                   prioritizedAuthors>>

\* the find() of the authors rejects: the catch returns three empty classes
ClassifyThrows ==
    /\ classification' = EmptyClassification
    /\ lastOp' = "classifyThrew"
    /\ UNCHANGED <<tweetsCollection, walkVars, storeVars, jobVars, visionVars, selected, tweetFetch, pipeVars, limiterVars,
                   authorsCollection, alwaysReplyToUsernames, frequentAuthorIds,
                   prioritizedAuthors>>

\* getTargetAuthors of llm_response_context.mjs returns
V1Classify ==
    /\ classification' =
          V1getTargetAuthors(authorsCollection, alwaysReplyToUsernames, frequentAuthorIds)
    /\ lastOp' = "getTargetAuthors"
    /\ UNCHANGED <<tweetsCollection, walkVars, storeVars, jobVars, visionVars, selected, tweetFetch, pipeVars, limiterVars,
                   authorsCollection, alwaysReplyToUsernames, frequentAuthorIds,
                   prioritizedAuthors>>

\* prioritizeAuthors: aggregate(pipeline).toArray() resolves
prioritizeAuthors ==
    /\ prioritizedAuthors' \in
          SortByPriorityScore(WithPriorityScore(authorsCollection, responsesCollection))
    /\ lastOp' = "prioritize"
    /\ UNCHANGED <<tweetsCollection, walkVars, storeVars, jobVars, visionVars, selected, tweetFetch, pipeVars, limiterVars,
                   authorsCollection, alwaysReplyToUsernames, frequentAuthorIds,
                   classification>>

\* the aggregation rejects (its $lookup stage fails): the catch logs and
\* returns []
prioritizeAuthorsThrows ==
    /\ prioritizedAuthors' = <<>>
    /\ lastOp' = "prioritizeThrew"
    /\ UNCHANGED <<tweetsCollection, walkVars, storeVars, jobVars, visionVars, selected, tweetFetch, pipeVars, limiterVars,
                   authorsCollection, alwaysReplyToUsernames, frequentAuthorIds,
                   classification>>

NextAuthors ==
    \/ \E frequentOk \in BOOLEAN : Classify(frequentOk)
    \/ ClassifyThrows
    \/ V1Classify
    \/ prioritizeAuthors
    \/ prioritizeAuthorsThrows

SpecAuthors == InitAuthors /\ [][NextAuthors]_vars

(***************************************************************************)
(* Claims about the thread walk and the trimming (SpecWalk).               *)
(***************************************************************************)
WalkDone == wpc = "done"

StartExists == startId \in StoredIds(tweetsCollection)

\* the findOne of the starting post itself rejected
FirstLookupThrew == walkThrew /\ lookups = 1

\* C1: for every stored reply graph (cycles included) and every starting id
\* the walk makes at most one lookup per stored post plus one, never more
\* than the length cap allows, is never stuck before it returns, and, when
\* the starting post exists and its lookup did not reject, returns a thread
\* of length at least 1.
C1_WalkTerminates ==
    /\ lookups <= Cardinality(StoredIds(tweetsCollection)) + 1
    /\ lookups <= conversationMaxTweets + TrimBuffer
    /\ wpc = "loop" => ENABLED NextWalk
    /\ (WalkDone /\ StartExists /\ ~FirstLookupThrew) => Len(conversation) >= 1

\* a walk that ran into a reply cycle and returned
C1_Witness ==
    /\ WalkDone
    /\ ~walkThrew
    /\ currentTweetId # NoId
    /\ currentTweetId \in visited
    /\ FindOne(tweetsCollection, currentTweetId) # NoDoc
    /\ Len(conversation) >= 2

NineOfFive == WalkDone /\ Len(tweets) = 9 /\ conversationMaxTweets = 5

CeilHalf(m) == (m \div 2) + (m % 2)
FloorHalf(m) == m \div 2

\* C10: a thread longer than maxKept >= 1 is returned as its first
\* ceil(maxKept/2) posts, one separator counting (length - maxKept) omitted
\* posts, and its last floor(maxKept/2) posts; a thread of length <= maxKept
\* is returned unchanged.
C10_TrimPolicy ==
    WalkDone =>
        LET n == Len(tweets)
            m == conversationMaxTweets
        IN  IF n <= m
            THEN conversation = tweets
            ELSE conversation =
                    SubSeq(tweets, 1, CeilHalf(m))
                      \o <<Separator(n - m)>>
                      \o SubSeq(tweets, n - FloorHalf(m) + 1, n)

(***************************************************************************)
(* Claims about the jobs.                                                  *)
(***************************************************************************)
Marked(coll, p) == coll[p] # NoDoc /\ coll[p].processing_status.llm_context = TRUE
HasRecord(p) == ResponsesFor(responsesCollection, p) # {}

C3_OneRecordPerPost ==
    \A p \in PostIds : Cardinality(ResponsesFor(responsesCollection, p)) <= 1
\* both runs are under way and each has completed the upsert of the same post
C3_Witness ==
    /\ run["v1a"].pc # "idle"
    /\ run["v1b"].pc # "idle"
    /\ run["v1a"].last # NoId
    /\ run["v1a"].last = run["v1b"].last
    /\ Cardinality(ResponsesFor(responsesCollection, run["v1a"].last)) = 1

\* C4: a post that is marked processed and has no response record while no
\* run is under way (the run was killed, or its upsert failed) eventually
\* gets its response record from a later run.
C4_NoPostLost ==
    \A p \in PostIds :
        (Marked(tweetsCollection, p) /\ ~HasRecord(p) /\ run["v2"].pc = "idle")
            ~> HasRecord(p)

\* C5: the step that writes a post's processed marker is taken only by a run
\* whose prompt for the post has already been composed.
C5_MarkerAfterPrompt ==
    [][\A p \in PostIds :
          (~Marked(tweetsCollection, p) /\ Marked(tweetsCollection', p))
              => run["v2"].context # <<>>]_vars

\* C6: no step of the scraper or of the job (selection, enrichment, context
\* building, upsert) takes a post's marker from true back to false or
\* removes it.
C6_MarkerOneWay ==
    [][\A p \in PostIds :
          Marked(tweetsCollection, p) => Marked(tweetsCollection', p)]_vars
\* a marked post has been through a later run's enrichment and selection
C6_Witness ==
    \E p \in PostIds :
        /\ Marked(tweetsCollection, p)
        /\ run["v2"].pc = "loop"
        /\ run["v2"].processedCount = 0
        /\ run["v2"].failedCount = 0

\* C7: every post the selection step returns is stored as returned, is not
\* by the operating account and is not marked processed at that moment.
C7_SelectedUnmarked ==
    [][(run["v2"].pc = "select" /\ run'["v2"].pc = "loop") =>
          \A k \in DOMAIN run'["v2"].queue :
              LET t == run'["v2"].queue[k]
              IN  /\ t.author_id # twitterUserId
                  /\ tweetsCollection[t.id] = t
                  /\ ~Marked(tweetsCollection, t.id)]_vars
\* a run has just selected posts while a post marked by an earlier run is stored
C7_Witness ==
    /\ run["v2"].pc = "loop"
    /\ run["v2"].queue # <<>>
    /\ run["v2"].processedCount = 0
    /\ run["v2"].failedCount = 0
    /\ \E p \in PostIds :
          /\ Marked(tweetsCollection, p)
          /\ tweetsCollection[p].author_id # twitterUserId
          /\ \A k \in DOMAIN run["v2"].queue : run["v2"].queue[k].id # p

\* the context has a part that carries the text
ContainsText(context, text) ==
    \E k \in DOMAIN context :
        /\ context[k].section \in {"target", "error"}
        /\ "text" \in DOMAIN context[k]
        /\ context[k].text = text

\* C8: whatever gathering step or marker write fails, buildContext of v2
\* hands the loop a non-empty context that contains the target post's text,
\* and the run goes on to the upsert rather than to the loop's catch.
C8_ContextAlwaysBuilt ==
    /\ [](run["v2"].pc \in {"upsert", "upsertWrite"} =>
            /\ run["v2"].context # <<>>
            /\ ContainsText(run["v2"].context, run["v2"].tweet.text))
    /\ [][run["v2"].pc \in {"gather", "mark", "format"} =>
            run'["v2"].pc \notin {"loop", "close"}]_vars
\* vision unavailable, no thread, no recent interactions
C8_Witness ==
    /\ run["v2"].pc = "upsert"
    /\ run["v2"].conversation = <<>>
    /\ run["v2"].visionContext = <<Unavailable>>
    /\ ContainsText(run["v2"].context, run["v2"].tweet.text)

(***************************************************************************)
(* Claims about the selection.                                             *)
(***************************************************************************)
NoRepeatedId(list) ==
    \A a, b \in DOMAIN list : list[a].id = list[b].id => a = b

\* C11: the list a selection step (getPrioritizedTweets) hands to the loop
\* holds every post id exactly once, whichever predicates the post matches
\* (mention and keyword, or mention and reply).
C11_EachIdOnce ==
    [][\A j \in Jobs :
          (run[j].pc = "select" /\ run'[j].pc = "loop")
              => NoRepeatedId(run'[j].queue)]_vars

\* (engagement_score desc, created_at desc), as the claims state it
RanksAbove(a, b) ==
    \/ a.engagement_score > b.engagement_score
    \/ /\ a.engagement_score = b.engagement_score
       /\ a.created_at > b.created_at

\* the first of the three queries (mentions, replies, related) a post matches
FirstQuery(doc) == IF IsMention(doc) THEN 1 ELSE IF IsReply(doc) THEN 2 ELSE 3

\* C12 as stated: the sequence getPrioritizedTweets returns is ordered, as a
\* whole, by engagement_score descending and then created_at descending.
C12_OrderedAsClaimed ==
    [][lastOp' = "select" =>
          \A a, b \in DOMAIN selected' :
              a < b => RanksAbove(selected'[a], selected'[b])]_vars

\* the stored posts one of the three queries matches
Matching(kind) ==
    {tweetsCollection[p] : p \in {q \in DOMAIN tweetsCollection :
        CommonFilter(tweetsCollection[q]) /\ Matches(kind, tweetsCollection[q])}}

QueryKinds == {"mentions", "replies", "related"}

\* the limit cuts none of the three results
NoQueryCut == \A kind \in QueryKinds : Cardinality(Matching(kind)) <= tweetFetch

\* C12 amended: when the limit cuts none of the three results, the sequence
\* getPrioritizedTweets returns lists the posts by the first query they match
\* (mentions, then replies, then keyword matches), and the posts of one query
\* by engagement_score descending and then created_at descending.
C12_OrderedPerQuery ==
    [][(lastOp' = "select" /\ NoQueryCut) =>
          \A a, b \in DOMAIN selected' :
              a < b =>
                  \/ FirstQuery(selected'[a]) < FirstQuery(selected'[b])
                  \/ /\ FirstQuery(selected'[a]) = FirstQuery(selected'[b])
                     /\ RanksAbove(selected'[a], selected'[b])]_vars
\* a scored keyword post was returned after an unscored mention
C12_Witness ==
    /\ lastOp = "select"
    /\ NoQueryCut
    /\ Len(selected) = 2
    /\ IsMention(selected[1])
    /\ ~IsMention(selected[2])
    /\ selected[2].engagement_score > selected[1].engagement_score

\* the n posts of docs that rank highest, highest first
RECURSIVE Best(_, _)
Best(docs, n) ==
    IF docs = {} \/ n = 0 THEN <<>>
    ELSE LET top == CHOOSE d \in docs : \A e \in docs \ {d} : RanksAbove(d, e)
         IN  <<top>> \o Best(docs \ {top}, n - 1)

\* the entries of list whose id no earlier entry carries, in their order
RECURSIVE FirstOccurrences(_, _)
FirstOccurrences(list, i) ==
    IF i > Len(list) THEN <<>>
    ELSE IF \E j \in 1 .. i - 1 : list[j].id = list[i].id
         THEN FirstOccurrences(list, i + 1)
         ELSE <<list[i]>> \o FirstOccurrences(list, i + 1)

\* C30: getPrioritizedTweets returns the concatenation of the mention, reply
\* and keyword results, each ordered by (engagement_score desc, created_at
\* desc) and cut to the limit, with every post kept where it occurs first;
\* the result has at most 3 x limit posts.
C30_CutConcatenation ==
    [][lastOp' = "select" =>
          /\ selected' =
                FirstOccurrences(Best(Matching("mentions"), tweetFetch)
                                     \o Best(Matching("replies"), tweetFetch)
                                     \o Best(Matching("related"), tweetFetch), 1)
          /\ Len(selected') <= 3 * tweetFetch]_vars
\* under a limit of 1 a post that matches all three queries was returned
\* once, and was cut from the keyword result by the post returned after it
C30_Witness ==
    /\ lastOp = "select"
    /\ tweetFetch = 1
    /\ Len(selected) = 2
    /\ IsMention(selected[1]) /\ IsReply(selected[1]) /\ IsRelated(selected[1])
    /\ RanksAbove(selected[2], selected[1])
    /\ ~NoQueryCut

(***************************************************************************)
(* Claims about the engagement score.                                      *)
(***************************************************************************)
\* a raw counter of a post, 0 when the post does not carry it
RawCounter(doc, c) ==
    IF c \in DOMAIN doc.public_metrics THEN doc.public_metrics[c]
    ELSE IF c \in DOMAIN doc THEN doc[c]
    ELSE 0

\* likes * 2.0 + reshares * 1.5 + replies * 1.0, in halves
WeightedSum(doc) ==
    RawCounter(doc, "like_count") * 4
      + RawCounter(doc, "retweet_count") * 3
      + RawCounter(doc, "reply_count") * 2

TenFourTwo == [like_count |-> 10, retweet_count |-> 4, reply_count |-> 2]

\* C19: for every post calculateEngagementScore returns
\* likes * 2.0 + reshares * 1.5 + replies * 1.0 with every absent counter
\* counted as 0, the enrichment writes that value, and for the counters 10, 4
\* and 2 the value is exactly 28 (56 halves).
C19_ScoreFormula ==
    /\ [](\A p \in DOMAIN tweetsCollection :
            tweetsCollection[p] # NoDoc =>
                /\ calculateEngagementScore(tweetsCollection[p])
                       = WeightedSum(tweetsCollection[p])
                /\ tweetsCollection[p].public_metrics = TenFourTwo
                       => calculateEngagementScore(tweetsCollection[p]) = 56)
    /\ [][\A p \in DOMAIN tweetsCollection :
            (/\ tweetsCollection[p] # NoDoc
             /\ tweetsCollection[p].engagement_score = NoScore
             /\ tweetsCollection'[p].engagement_score # NoScore)
                => tweetsCollection'[p].engagement_score
                      = WeightedSum(tweetsCollection[p])]_vars
\* the batch has scored a post with the counters 10, 4, 2 and a post with
\* flat counters and no reply counter
C19_Witness ==
    /\ lastOp = "enrich"
    /\ \E p \in DOMAIN tweetsCollection :
          /\ tweetsCollection[p] # NoDoc
          /\ tweetsCollection[p].public_metrics = TenFourTwo
          /\ tweetsCollection[p].engagement_score = 56
    /\ \E p \in DOMAIN tweetsCollection :
          /\ tweetsCollection[p] # NoDoc
          /\ HasFlatCounters(tweetsCollection[p])
          /\ "reply_count" \notin DOMAIN tweetsCollection[p]
          /\ tweetsCollection[p].engagement_score = 15

\* C20: no step changes the engagement_score of a post that has one, also
\* when the post's raw counters changed after the score was written, and
\* the batch applied twice gives what it gives applied once.
C20_ScoreWrittenOnce ==
    /\ [][\A p \in DOMAIN tweetsCollection :
            (/\ tweetsCollection[p] # NoDoc
             /\ tweetsCollection[p].engagement_score # NoScore)
                => /\ tweetsCollection'[p] # NoDoc
                   /\ tweetsCollection'[p].engagement_score
                         = tweetsCollection[p].engagement_score]_vars
    /\ [](Enriched(Enriched(tweetsCollection)) = Enriched(tweetsCollection))
\* the batch has run over a post whose counters no longer give its score
C20_Witness ==
    /\ lastOp = "enrich"
    /\ \E p \in DOMAIN tweetsCollection :
          /\ tweetsCollection[p] # NoDoc
          /\ tweetsCollection[p].public_metrics # NoMetrics
          /\ tweetsCollection[p].engagement_score # NoScore
          /\ tweetsCollection[p].engagement_score
                # calculateEngagementScore(tweetsCollection[p])

\* the post carries a like, reshare or reply counter, nested or flat
HasRawCounter(doc) ==
    \E c \in {"like_count", "retweet_count", "reply_count"} :
        c \in DOMAIN doc.public_metrics \/ c \in DOMAIN doc

\* the post carries a like counter, nested or flat
HasLikeCounter(doc) ==
    "like_count" \in DOMAIN doc.public_metrics \/ "like_count" \in DOMAIN doc

\* C21: when the batch has applied all its updates, every post newer than
\* the start date that had no engagement_score and carried at least one raw
\* counter has the weighted sum of its counters as its engagement_score.
C21_AllWithCountersScored ==
    [][enrichTweetsWithEngagement(RankIds) =>
          \A p \in RankIds :
              (/\ tweetsCollection[p] # NoDoc
               /\ tweetsCollection[p].created_at >= EnrichmentStart
               /\ tweetsCollection[p].engagement_score = NoScore
               /\ HasRawCounter(tweetsCollection[p]))
                  => tweetsCollection'[p].engagement_score
                        = WeightedSum(tweetsCollection[p])]_vars

\* the same for the posts that carry a like counter
C21_AllWithLikeCounterScored ==
    [][enrichTweetsWithEngagement(RankIds) =>
          \A p \in RankIds :
              (/\ tweetsCollection[p] # NoDoc
               /\ tweetsCollection[p].created_at >= EnrichmentStart
               /\ tweetsCollection[p].engagement_score = NoScore
               /\ HasLikeCounter(tweetsCollection[p]))
                  => tweetsCollection'[p].engagement_score
                        = WeightedSum(tweetsCollection[p])]_vars

(***************************************************************************)
(* Claims about the image description cache (SpecVision).                  *)
(***************************************************************************)
\* the step in which the call in progress returns
Returning == tasks # <<>> /\ tasks' = <<>>

\* the call that returned last and the call in progress are both for url u alone
SuccessiveFor(u) == calls # <<>> /\ calls[1].urls = <<u>> /\ mediaUrls = <<u>>

\* C13 as stated: two successive calls for the same URL invoke describeImage
\* at most once in total.
C13_OnceInTotalAsClaimed ==
    [][\A u \in Urls :
          (Returning /\ SuccessiveFor(u)) => calls[1].api[u] + apiCalls[u] <= 1]_vars

\* C13 amended: two successive calls for the same URL, the first of which
\* returned a description and not the fallback text, invoke describeImage
\* at most once in total: the second call makes no describeImage call and
\* returns the cached description, or the fallback text when its own cache
\* read rejects.
C13_OnceAfterDescription ==
    [][\A u \in Urls :
          (Returning /\ SuccessiveFor(u) /\ descriptions = <<Desc(u)>>)
              => /\ calls[1].api[u] + apiCalls[u] <= 1
                 /\ apiCalls[u] = 0
                 /\ descriptions' \in {<<Desc(u)>>, <<Unavailable>>}]_vars
\* the first call made the one describeImage call, the second call has its
\* description from the cache and is about to return
C13_Witness ==
    \E u \in Urls :
        /\ SuccessiveFor(u)
        /\ calls[1].api[u] = 1
        /\ descriptions = <<Desc(u)>>
        /\ apiCalls[u] = 0
        /\ tasks[1].pc = "done"
        /\ tasks[1].result = Desc(u)

\* C14: while two lookups of the same URL are in flight at the same time,
\* describeImage has been called at most once for that URL.
C14_OneCallInFlight ==
    \A j, k \in DOMAIN tasks :
        (/\ j # k
         /\ tasks[j].url = tasks[k].url
         /\ InFlight(tasks[j])
         /\ InFlight(tasks[k]))
            => apiCalls[tasks[j].url] <= 1

\* C15: at no moment are more than imageConcurrency lookups executing, nor
\* more than imageConcurrency describeImage calls in flight, however many
\* URLs the call was given.
C15_BoundedConcurrency ==
    /\ ActiveCount(tasks) <= imageConcurrency
    /\ Cardinality({k \in DOMAIN tasks : tasks[k].pc = "describe"}) <= imageConcurrency
\* the limiter is full and holds a task back
C15_Witness ==
    /\ ActiveCount(tasks) = imageConcurrency
    /\ Len(mediaUrls) > imageConcurrency
    /\ \E k \in DOMAIN tasks : tasks[k].pc = "queued"
    /\ \E k \in DOMAIN tasks : tasks[k].pc = "describe"

\* C16: a call whose tasks have all finished returns; it returns one entry
\* per URL, in order: the fallback text for exactly the URLs whose cache
\* read, describeImage call or cache write rejected, the description of the
\* URL for every other one.
C16_FallbackForFailedOnly ==
    /\ []((tasks # <<>> /\ \A k \in DOMAIN tasks : tasks[k].pc = "done")
            => ENABLED DescribeReturn)
    /\ [][Returning =>
            /\ Len(descriptions') = Len(mediaUrls)
            /\ \A k \in DOMAIN mediaUrls :
                  descriptions'[k] = IF tasks[k].result = Unavailable
                                     THEN Unavailable
                                     ELSE Desc(mediaUrls[k])]_vars
\* a call for two URLs has returned the fallback text for the first only
C16_Witness ==
    /\ tasks = <<>>
    /\ calls # <<>>
    /\ calls[1].urls = <<"u1", "u2">>
    /\ descriptions = <<Unavailable, Desc("u2")>>

\* C17: image_visions holds at most one entry per URL, and no step changes
\* the description or the created_at of an entry that exists.
C17_EntryWrittenOnce ==
    [][\A u \in Urls :
          imageVisions[u] # NoDesc => imageVisions'[u] = imageVisions[u]]_vars

(***************************************************************************)
(* Claims about the classification of authors (SpecAuthors).               *)
(***************************************************************************)
Members(list) == {list[k] : k \in DOMAIN list}

\* C18: the three classes getTargetAuthorsClassification returns for a list
\* of stored authors are pairwise disjoint, hold no author twice, and
\* together hold exactly the authors of the list, whatever the allow-list
\* and the set of recently answered authors.
C18_ClassesPartition ==
    lastOp = "classify" =>
        LET priority == classification.priority
            frequent == classification.frequent
            new == classification.new
        IN  /\ Members(priority) \cap Members(frequent) = {}
            /\ Members(priority) \cap Members(new) = {}
            /\ Members(frequent) \cap Members(new) = {}
            /\ Members(priority) \cup Members(frequent) \cup Members(new)
                  = Members(authorsCollection)
            /\ Len(priority) + Len(frequent) + Len(new) = Len(authorsCollection)
\* no class is empty, and an author of the allow-list was answered recently
C18_Witness ==
    /\ lastOp = "classify"
    /\ classification.priority # <<>>
    /\ classification.frequent # <<>>
    /\ classification.new # <<>>
    /\ \E k \in DOMAIN classification.priority :
          classification.priority[k].id \in frequentAuthorIds

\* the same of getTargetAuthors of llm_response_context.mjs
C18_V1ClassesPartition ==
    lastOp = "getTargetAuthors" =>
        /\ Members(classification.priority) \cap Members(classification.frequent) = {}
        /\ Members(classification.priority) \cap Members(classification.new) = {}

(***************************************************************************)
(* Claims about one thread reconstruction (SpecWalk).                      *)
(***************************************************************************)
\* the posts of a returned thread, its separator left out
PostsOf(thread) == SelectSeq(thread, LAMBDA t : t.type # "separator")

\* C29: in every reply graph, cycles included, one reconstruction looks up
\* every id at most once (each lookup is of an id not looked up before),
\* never adds a post it has already added, and returns a thread in which no
\* post id occurs twice.
C29_NoPostTwice ==
    /\ lookups = Cardinality(visited)
    /\ \A a, b \in DOMAIN tweets : tweets[a].id = tweets[b].id => a = b
    /\ \A a \in DOMAIN tweets : tweets[a].id \in visited
    /\ WalkDone =>
          \A a, b \in DOMAIN PostsOf(conversation) :
              PostsOf(conversation)[a].id = PostsOf(conversation)[b].id => a = b
\* the same, the returned thread looked at when conversationMaxTweets >= 2
C29_NoPostTwiceFromTwoKept ==
    /\ lookups = Cardinality(visited)
    /\ \A a, b \in DOMAIN tweets : tweets[a].id = tweets[b].id => a = b
    /\ \A a \in DOMAIN tweets : tweets[a].id \in visited
    /\ (WalkDone /\ conversationMaxTweets >= 2) =>
          \A a, b \in DOMAIN PostsOf(conversation) :
              PostsOf(conversation)[a].id = PostsOf(conversation)[b].id => a = b

(***************************************************************************)
(* Claims about the runs of the jobs.                                      *)
(***************************************************************************)
\* the authors collection holds no document for the author of the post
AuthorMissing(tweet) == \A a \in AuthorDocs : a.id # tweet.author_id

\* C25: a run that comes to a selected post whose author record is missing
\* does not skip it: it goes on to build the post's context with the
\* placeholder identity, and the context it then has for the upsert of the
\* post's response record is not empty.
C25_MissingAuthorProcessed ==
    /\ [][\A j \in Jobs :
            (/\ run[j].pc = "loop"
             /\ run[j].queue # <<>>
             /\ AuthorMissing(Head(run[j].queue))
             /\ run'[j] # run[j]
             /\ run'[j].pc \in {"loop", "gather"})
                => /\ run'[j].pc = "gather"
                   /\ run'[j].tweet = Head(run[j].queue)
                   /\ AuthorDetails(run'[j].author) = UnknownAuthor]_vars
    /\ [](\A j \in Jobs :
            (run[j].pc = "upsert" /\ AuthorMissing(run[j].tweet))
                => run[j].context # <<>>)

\* the run of part_002 is in its finally and connect() has not resolved in it
ConnectFailed == run["v2"].pc = "close" /\ ~run["v2"].connected

RecordsOf(author) ==
    IF author.id = NoAuthorId THEN {}
    ELSE {k \in DOMAIN responsesCollection : responsesCollection[k].author_id = author.id}

\* followers * 0.5 + postCount * 0.3 + interactions * 0.2, in tenths
RankingScore(author, interactions) ==
    (IF "followers_count" \in DOMAIN author THEN author.followers_count ELSE 0) * 5
      + (IF "tweet_count" \in DOMAIN author THEN author.tweet_count ELSE 0) * 3
      + interactions * 2

Descending(list) ==
    \A i, j \in DOMAIN list : i < j => list[i].priorityScore >= list[j].priorityScore

\* every stored author is in the ranking exactly once
EachAuthorOnce(list) ==
    /\ Len(list) = Len(authorsCollection)
    /\ \A a \in DOMAIN authorsCollection :
          Cardinality({k \in DOMAIN list :
                          list[k].username = authorsCollection[a].username}) = 1

\* C22: the ranking prioritizeAuthors returns holds every stored author
\* exactly once, each with followers * 0.5 + postCount * 0.3 + (number of
\* response records of that author) * 0.2 as its priorityScore, in descending
\* order of priorityScore.
C22_RankingAsClaimed ==
    lastOp = "prioritize" =>
        /\ EachAuthorOnce(prioritizedAuthors)
        /\ Descending(prioritizedAuthors)
        /\ \A a \in DOMAIN authorsCollection, k \in DOMAIN prioritizedAuthors :
              prioritizedAuthors[k].username = authorsCollection[a].username
                  => prioritizedAuthors[k].priorityScore
                        = RankingScore(authorsCollection[a],
                                       Cardinality(RecordsOf(authorsCollection[a])))

\* the same, the score looked at for the authors stored with an id only
C22_RankingOfAuthorsWithId ==
    lastOp = "prioritize" =>
        /\ EachAuthorOnce(prioritizedAuthors)
        /\ Descending(prioritizedAuthors)
        /\ \A a \in DOMAIN authorsCollection, k \in DOMAIN prioritizedAuthors :
              (/\ prioritizedAuthors[k].username = authorsCollection[a].username
               /\ authorsCollection[a].id # NoAuthorId)
                  => prioritizedAuthors[k].priorityScore
                        = RankingScore(authorsCollection[a],
                                       Cardinality(RecordsOf(authorsCollection[a])))

\* C23: when the interaction join fails, the ranking still holds every
\* stored author, scored with an interaction count of 0.
C23_RankingSurvivesJoinFailure ==
    lastOp = "prioritizeThrew" =>
        /\ EachAuthorOnce(prioritizedAuthors)
        /\ \A a \in DOMAIN authorsCollection, k \in DOMAIN prioritizedAuthors :
              prioritizedAuthors[k].username = authorsCollection[a].username
                  => prioritizedAuthors[k].priorityScore
                        = RankingScore(authorsCollection[a], 0)

(***************************************************************************)
(* Claims about the response records (SpecPipeline, SpecPublish, FairGen). *)
(***************************************************************************)
\* the fields the upsert of a context builder sets: the context (prompt in
\* the legacy builder) and the processing metadata
ContextFields ==
    {"context", "prompt", "author_id", "author_username", "processed_by", "processed_at"}

\* a context builder completes an upsert in this step
UpsertCompletes ==
    \/ \E j \in Jobs : run[j].pc = "upsertWrite" /\ run'[j].pc = "loop"
    \/ legacyTweet # NoId /\ legacyTweet' = NoId

NotFollowed(tweetId) ==
    IF tweetsCollection[tweetId] = NoDoc THEN TRUE
    ELSE tweetsCollection[tweetId].author_id \notin following

\* postGeneratedResponses is done with the response at the head of its list,
\* whose post is not stored or is by an author who is not followed
UnfollowedHandled ==
    /\ ~REPLY_TO_UNFOLLOWED
    /\ unposted # <<>>
    /\ unposted' = Tail(unposted)
    /\ NotFollowed(responsesCollection[Head(unposted)].tweet_id)

\* C27 as stated: with REPLY_TO_UNFOLLOWED false, postGeneratedResponses
\* publishes no reply to a post that is not stored or whose author is not
\* followed, and leaves the response record of such a post unchanged.
C27_UnfollowedUntouched ==
    [][UnfollowedHandled =>
          /\ published' = published
          /\ responsesCollection'[Head(unposted)] = responsesCollection[Head(unposted)]]_vars

\* C27, the part about publishing: with REPLY_TO_UNFOLLOWED false, every post
\* a reply was published to is stored and by a followed author.
C27_NoReplyToUnfollowed ==
    ~REPLY_TO_UNFOLLOWED => \A t \in PostIds : published[t] > 0 => ~NotFollowed(t)

\* C27, the part about the record, when the lookup of the post resolves: the
\* record of a post that is not stored or not by a followed author is left
\* unchanged.
C27_UnfollowedUntouchedOnLookup ==
    [][(UnfollowedHandled /\ ~\E postOk, writeOk \in BOOLEAN : Post_Handle(FALSE, postOk, writeOk)) =>
          /\ published' = published
          /\ responsesCollection'[Head(unposted)] = responsesCollection[Head(unposted)]]_vars

\* a record of post t carries a context and no response
AwaitsResponse(t) ==
    \E k \in DOMAIN responsesCollection :
        /\ responsesCollection[k].tweet_id = t
        /\ responsesCollection[k].context # <<>>
        /\ responsesCollection[k].response = ""

\* C28: every response record a context builder creates with a context and
\* no response is eventually given a response by the generator, when the
\* generator's collaborators eventually succeed.
C28_EveryContextAnswered ==
    \A t \in PostIds : AwaitsResponse(t) ~> ~AwaitsResponse(t)

(***************************************************************************)
(* Claims about the prompt of the v2 job (SpecDigest).                     *)
(***************************************************************************)
\* buildContext of the v2 job has gathered its three parts in this step
Gathered == run["v2"].pc = "gather" /\ run'["v2"].pc = "mark"

\* C31: each entry of the digest _getRecentContext builds pairs the context
\* the builder stored on a response record of the author with the reply
\* stored on the same record, newest record first.
C31_DigestPairsContext ==
    [][Gathered =>
          LET items == run'["v2"].recentContext.items
          IN  \E at \in [DOMAIN items -> DOMAIN responsesCollection] :
                 /\ \A i \in DOMAIN items :
                       /\ items[i].prompt = responsesCollection[at[i]].context
                       /\ items[i].response = responsesCollection[at[i]].response
                 /\ \A i, j \in DOMAIN items : i < j => at[i] > at[j]]_vars

\* C31 with the field the code reads: each entry pairs the prompt field of a
\* response record with the reply stored on the same record, newest first.
C31_DigestPairsPromptField ==
    [][Gathered =>
          LET items == run'["v2"].recentContext.items
          IN  \E at \in [DOMAIN items -> DOMAIN responsesCollection] :
                 /\ \A i \in DOMAIN items :
                       /\ items[i].prompt = responsesCollection[at[i]].prompt
                       /\ items[i].response = responsesCollection[at[i]].response
                       /\ responsesCollection[at[i]].response # ""
                 /\ \A i, j \in DOMAIN items : i < j => at[i] > at[j]]_vars


Formatted == run["v2"].pc = "format" /\ run'["v2"].pc = "upsert"

SectionOrder == <<"header", "recent", "conversation", "vision", "target">>

SectionRank(name) == CHOOSE k \in DOMAIN SectionOrder : SectionOrder[k] = name

SectionNames(prompt) == [i \in DOMAIN prompt |-> prompt[i].section]

\* C32: the prompt _formatPrompt returns lists its sections in the order
\* author header, recent digest, conversation thread, image descriptions,
\* target post; an optional section is in the prompt exactly when its part
\* is not empty, and the header and the target section are always there.
C32_SectionsInFixedOrder ==
    [][Formatted =>
          LET names == SectionNames(run'["v2"].context)
              has(name) == \E i \in DOMAIN names : names[i] = name
          IN  /\ Len(names) >= 2
              /\ names[1] = "header"
              /\ names[Len(names)] = "target"
              /\ \A i, j \in DOMAIN names :
                    i < j => SectionRank(names[i]) < SectionRank(names[j])
              /\ has("recent") <=> run["v2"].recentContext.kind # "none"
              /\ has("conversation") <=> run["v2"].conversation # <<>>
              /\ has("vision") <=> run["v2"].visionContext # <<>>]_vars

\* a composed prompt with an optional section left out between two kept ones
C32_Witness ==
    /\ run["v2"].pc = "upsert"
    /\ run["v2"].context # <<>>
    /\ LET names == SectionNames(run["v2"].context)
       IN  \/ names = <<"header", "recent", "conversation", "target">>
           \/ names = <<"header", "conversation", "vision", "target">>


(***************************************************************************)
(* Claims about the lock of part_002's main (Spec, FairSpec).              *)
(***************************************************************************)
\* main() is called again and returns at its guard
SkippedCall ==
    /\ run["v2"].second = "none"
    /\ run'["v2"].second = "skipped"

\* C33: no second run of main starts while one is in progress, a run in
\* progress holds the lock, and a call of main that is skipped writes
\* nothing to the store, leaves the lock held and the run where it was.
C33_SingleFlight ==
    /\ [](run["v2"].second # "started")
    /\ [](run["v2"].pc # "idle" => isProcessing)
    /\ [][SkippedCall =>
            /\ isProcessing'
            /\ run' = [run EXCEPT !["v2"].second = "skipped"]
            /\ UNCHANGED <<tweetsCollection, storeVars>>]_vars

\* a call of main was skipped while the run was writing a response record
C33_Witness ==
    /\ run["v2"].pc = "upsertWrite"
    /\ run["v2"].second = "skipped"
    /\ isProcessing


\* the run of part_002 ends
RunEnds == run["v2"].pc # "idle" /\ run'["v2"].pc = "idle"

\* C35: whichever way a run of main ends, isProcessing is false after it,
\* and whenever the lock is held it is released later, so that a later call
\* of main is not skipped.
C35_LockReleasedOnEveryExit ==
    /\ [][RunEnds => ~isProcessing']_vars
    /\ (isProcessing ~> ~isProcessing)

\* C35 on the exits other than a rejected close(): each of them releases
\* the lock
C35_LockReleasedUnlessCloseThrows ==
    [][(RunEnds /\ isProcessing') => CloseThrows("v2")]_vars


(***************************************************************************)
(* Claims about the life of a response record (SpecPublish).               *)
(***************************************************************************)
\* C34: in every reachable state a response record that carries a posted
\* field carries a response field, also after the dashboard deleted a draft
\* and after a publish attempt failed.
C34_PostedImpliesResponse ==
    \A k \in DOMAIN responsesCollection :
        responsesCollection[k].posted # "" => responsesCollection[k].response # ""

\* C36: postX publishes at most one reply for a response record, also when
\* the write of posted fails or the process stops between the two.
C36_PublishedAtMostOnce ==
    \A t \in PostIds : published[t] <= 1

\* C36, when the write after postX is made: a record that carries a posted
\* field is not handed to postX again.
C36_NoRepublishOncePostedWritten ==
    [][\A t \in PostIds :
          published'[t] > published[t] =>
              /\ unposted # <<>>
              /\ responsesCollection[Head(unposted)].tweet_id = t
              /\ responsesCollection[Head(unposted)].posted = ""]_vars

\* C37: a record with posted = true carries the id of a reply that was
\* published for it, never null.
C37_PostedHasReplyId ==
    \A k \in DOMAIN responsesCollection :
        responsesCollection[k].posted = "true"
            => /\ responsesCollection[k].response_id = "reply id"
               /\ published[responsesCollection[k].tweet_id] > 0

\* C37, the part about the id: a response_id other than null is the id of a
\* reply postX published to the post of the record.
C37_ReplyIdIsOfPublishedReply ==
    \A k \in DOMAIN responsesCollection :
        responsesCollection[k].response_id = "reply id"
            => /\ responsesCollection[k].posted = "true"
               /\ published[responsesCollection[k].tweet_id] > 0


(***************************************************************************)
(* Claims about the order of the thread (SpecWalk).                        *)
(***************************************************************************)
\* post `parent` is the one the first replied_to reference of `child` names
IsRepliedToParent(parent, child) ==
    \E k \in DOMAIN child.referenced_tweets :
        /\ child.referenced_tweets[k].type = "replied_to"
        /\ child.referenced_tweets[k].id = parent.id
        /\ \A j \in 1 .. (k - 1) : child.referenced_tweets[j].type # "replied_to"

\* C38: in the thread the walk has collected each post is the replied_to
\* parent of the post that follows it; and when the starting post is stored
\* and its lookup did not reject, it is the last entry of the collected
\* thread and of the returned (trimmed or untrimmed) thread.
C38_ConversationOrder ==
    /\ \A i \in 1 .. (Len(tweets) - 1) : IsRepliedToParent(tweets[i], tweets[i + 1])
    /\ tweets # <<>> => tweets[Len(tweets)].id = startId
    /\ (WalkDone /\ StartExists /\ ~FirstLookupThrew) =>
          /\ tweets # <<>>
          /\ conversation # <<>>
          /\ conversation[Len(conversation)] = tweets[Len(tweets)]
          /\ conversation[Len(conversation)].type = "tweet"
          /\ conversation[Len(conversation)].id = startId

\* a thread of more than five posts returned trimmed under the default
\* conversationMaxTweets, the starting post last
C38_Witness ==
    /\ WalkDone
    /\ conversationMaxTweets = DefaultConversationMaxTweets
    /\ Len(tweets) > conversationMaxTweets
    /\ Len(conversation) = conversationMaxTweets + 1
    /\ conversation[Len(conversation)].id = startId


(***************************************************************************)
(* Claims about the walk of getTweetResponseContext (SpecLegacyWalk).      *)
(***************************************************************************)
\* C39: on every stored reply graph, two posts that reference each other
\* included, the walk of getTweetResponseContext makes no more lookups than
\* there are stored posts plus one, and adds no post to the conversation
\* twice.
C39_LegacyWalkTerminates ==
    /\ lookups <= Cardinality(StoredIds(tweetsCollection)) + 1
    /\ \A a, b \in DOMAIN tweets : tweets[a].id = tweets[b].id => a = b


(***************************************************************************)
(* Claims about the rate limiter (SpecLimiter).                            *)
(***************************************************************************)
\* C40: the token count of the limiter stays within 0 .. maxRequests,
\* whatever removeTokens and refillTokens calls the fetch cycles that share
\* it make and however they interleave.
C40_TokensInRange == tokens >= 0 /\ tokens <= MaxRequests

\* C40, the upper end: the token count never exceeds maxRequests.
C40_TokensAtMostMax == tokens <= MaxRequests

====
